---- MODULE Spec2Model ----
(***************************************************************************)
(* Model of the ACP provider adapter of goose (crates/goose/src/acp).      *)
(*                                                                         *)
(*   common.rs    the permission mapper (map_permission_response)         *)
(*   provider.rs  the provider facade (stream, handle_permission_          *)
(*                confirmation), the protocol task (handle_requests) and   *)
(*                the inbound callbacks of run_protocol_loop_with_transport*)
(*                                                                         *)
(* SpecMap applies the pure permission mapper to inputs drawn from bounded *)
(* sets.  Spec is the state machine of adapter, protocol task, streams,    *)
(* caller and peer; SpecConcurrent lets streams overlap, SpecFlood fills   *)
(* the update channel, SpecError varies the text of a prompt error.        *)
(* SpecSession adds the session calls (ensure_session, set_model,          *)
(* fetch_supported_models); SpecLife starts at connect and adds the        *)
(* failure of the byte stream and the drop of the adapter, SpecLifeFair    *)
(* is SpecLife with weak fairness of the adapter's own tasks.              *)
(* SpecAbandon drops a turn next to session calls, SpecMode varies the     *)
(* configured session mode and the modes the agent offers, SpecTranslate   *)
(* sends every session update, SpecGuards runs every user of the mutexes,  *)
(* SpecServers varies the configured MCP servers and the agent's           *)
(* capabilities, SpecReply varies mapping, offer and confirmation of a     *)
(* permission request, SpecComplete runs complete_with_model over a turn.  *)
(***************************************************************************)
EXTENDS Integers, Sequences, FiniteSets, TLC

VARIABLES
    permission_mapping,     \* AcpProvider.permission_mapping
    m_options,              \* mapper input: request.options
    m_decision,             \* mapper input: decision
    m_response,             \* mapper output (NoResponse before the call)
    goose_mode,             \* AcpProvider.goose_mode
    rejected_tool_calls,    \* AcpProvider.rejected_tool_calls (HashSet of tool-call ids)
    pending_confirmations,  \* AcpProvider.pending_confirmations: tool-call id -> the
                            \* stream whose one-shot receiver the stored sender feeds
    requests,               \* the ClientRequest channel AcpProvider.tx feeds
    task,                   \* handle_requests: where the protocol task stands, the
                            \* stream of the prompt in flight, and how many prompt
                            \* requests it has sent and seen answered
    prompt_response_tx,     \* the sink: NoStream, or the stream whose sender it holds
    updates,                \* per stream, the buffered AcpUpdates of its channel
    stream_pc,              \* per stream, where the generator of stream() stands
    stream_req,             \* per stream, the permission request it is suspended on
    confirmation,           \* per stream, the state of its confirmation one-shot
    permission_requests,    \* the peer's request_permission calls: the request, the
                            \* decision the stream took, the reply the peer got, and
                            \* whether a ToolCallComplete of the tool call was
                            \* processed after the decision
    yielded,                \* the item a stream yielded to the caller last
    peer_sent,              \* number of peer messages that reached a stream or
                            \* were answered
    refused,                \* per stream, the number of updates try_send could not
                            \* put into its channel because the channel was full
    prompt_result,          \* per stream, for as long as the caller holds it, the
                            \* response its prompt request got from the peer while
                            \* its receiver was open (NoResult: none)
    adapter,                \* the AcpProvider value: "connecting" (connect has not
                            \* returned), "live", "failed" (connect returned Err),
                            \* "dropped" (Drop ran), "shutdown_sent" (the task Drop
                            \* spawned has sent ClientRequest::Shutdown)
    init_rx,                \* the one-shot connect awaits: "Empty", "Ok", "Err", or
                            \* "Closed" (its sender was dropped unsent)
    calls,                  \* the calls of ensure_session, fetch_supported_models
                            \* and set_model made so far: operation, key, position,
                            \* reply one-shot and returned value
    goose_to_acp_id,        \* AcpProvider.goose_to_acp_id
    peer_sessions,          \* number of sessions the peer has created
    config,                 \* AcpProviderConfig: session_mode_id, mcp_servers, and
                            \* the extensions mcp_servers was projected from
    completion,             \* complete_with_model: where it stands, its locals text
                            \* and last_error, and the value it returned
    notifications,          \* the session notifications the callback has handled, each
                            \* with the state of the sink it met (kept only in the
                            \* specifications that record them)
    locks                   \* per mutex of the adapter, the task that holds its guard

(***************************************************************************)
(* Bounds.                                                                 *)
(***************************************************************************)
MaxCalls == 2
MaxOptions == 3
MaxStreams == 2
MaxPeerMessages == 2
MaxFloodMessages == 65
MaxRecorded == 2
MaxModes == 2

None == "None"

(***************************************************************************)
(* common.rs: data.                                                        *)
(***************************************************************************)
PermissionOptionKind == {"AllowOnce", "AllowAlways", "RejectOnce", "RejectAlways"}

PermissionDecision ==
    {"AllowAlways", "AllowOnce", "RejectAlways", "RejectOnce", "Cancel"}

ToolCallStatus == {"Pending", "InProgress", "Completed", "Failed"}

\* ids a peer offers, and ids a configuration may name ("missing" is never offered)
OfferedIds == {"x", "y"}
ConfiguredIds == OfferedIds \cup {"missing"}

PermissionOption == [option_id : OfferedIds, kind : PermissionOptionKind]

RECURSIVE SeqsUpTo(_, _)
SeqsUpTo(S, n) ==
    IF n = 0 THEN {<<>>}
    ELSE LET shorter == SeqsUpTo(S, n - 1)
         IN  shorter \cup {Append(q, e) : q \in {r \in shorter : Len(r) = n - 1}, e \in S}

OptionLists == SeqsUpTo(PermissionOption, MaxOptions)

PermissionMapping ==
    [allow_option_id : ConfiguredIds \cup {None},
     reject_option_id : ConfiguredIds \cup {None},
     rejected_tool_status : {"Completed", "Failed"}]

PermissionMappingDefault ==
    [allow_option_id |-> None, reject_option_id |-> None,
     rejected_tool_status |-> "Failed"]

Cancelled == [outcome |-> "Cancelled", option_id |-> None]
Selected(id) == [outcome |-> "Selected", option_id |-> id]
\* no response computed yet
NoResponse == [outcome |-> "NoResponse", option_id |-> None]

(***************************************************************************)
(* common.rs: should_record_rejection, select_option_id,                   *)
(* map_permission_response.                                                *)
(***************************************************************************)
\* mutant: Cancel is not recorded
should_record_rejection_not_cancel(decision) ==
    decision \in {"RejectAlways", "RejectOnce"}

should_record_rejection(decision) ==
    decision \in {"RejectAlways", "RejectOnce", "Cancel"}

\* mutant: the first option, whatever its kind
FindKind_any_kind(options, kind) ==
    IF Len(options) = 0 THEN None ELSE options[1].option_id

\* mutant: the last option of that kind
FindKind_last(options, kind) ==
    LET hits == {i \in 1..Len(options) : options[i].kind = kind}
    IN  IF hits = {} THEN None
        ELSE options[CHOOSE i \in hits : \A j \in hits : i >= j].option_id

\* options.iter().find(|opt| opt.kind == kind): the first position of that kind
FindKind(options, kind) ==
    LET hits == {i \in 1..Len(options) : options[i].kind = kind}
    IN  IF hits = {} THEN None
        ELSE options[CHOOSE i \in hits : \A j \in hits : i <= j].option_id

\* mutant: the configured id is returned without looking for it in the offer
select_option_id_unchecked(options, preferred_id, kind) ==
    IF preferred_id # None THEN preferred_id ELSE FindKind(options, kind)

\* mutant: a configured id that is not offered selects nothing
select_option_id_strict(options, preferred_id, kind) ==
    IF preferred_id # None
    THEN IF \E i \in 1..Len(options) : options[i].option_id = preferred_id
         THEN preferred_id ELSE None
    ELSE FindKind(options, kind)

\* mutant: the kind is tried before the configured id
select_option_id_kind_first(options, preferred_id, kind) ==
    IF FindKind(options, kind) # None THEN FindKind(options, kind)
    ELSE IF /\ preferred_id # None
            /\ \E i \in 1..Len(options) : options[i].option_id = preferred_id
         THEN preferred_id
         ELSE None

select_option_id(options, preferred_id, kind) ==
    IF /\ preferred_id # None
       /\ \E i \in 1..Len(options) : options[i].option_id = preferred_id
    THEN preferred_id
    ELSE FindKind(options, kind)

\* Option::or_else
or_else(a, b) == IF a # None THEN a ELSE b

\* mutant: Cancel is mapped like RejectOnce
map_permission_response_cancel_selects(mapping, options, decision) ==
    LET d == IF decision = "Cancel" THEN "RejectOnce" ELSE decision
        id == IF d \in {"AllowOnce", "AllowAlways"}
              THEN mapping.allow_option_id ELSE mapping.reject_option_id
        sibling == CASE d = "AllowOnce" -> "AllowAlways"
                     [] d = "AllowAlways" -> "AllowOnce"
                     [] d = "RejectOnce" -> "RejectAlways"
                     [] d = "RejectAlways" -> "RejectOnce"
        selected_id == or_else(select_option_id(options, id, d),
                               select_option_id(options, id, sibling))
    IN  IF selected_id # None THEN Selected(selected_id) ELSE Cancelled

map_permission_response(mapping, options, decision) ==
    LET selected_id ==
            CASE decision = "AllowAlways" ->
                    or_else(select_option_id(options, mapping.allow_option_id, "AllowAlways"),
                            select_option_id(options, mapping.allow_option_id, "AllowOnce"))
              [] decision = "AllowOnce" ->
                    or_else(select_option_id(options, mapping.allow_option_id, "AllowOnce"),
                            select_option_id(options, mapping.allow_option_id, "AllowAlways"))
              [] decision = "RejectAlways" ->
                    or_else(select_option_id(options, mapping.reject_option_id, "RejectAlways"),
                            select_option_id(options, mapping.reject_option_id, "RejectOnce"))
              [] decision = "RejectOnce" ->
                    or_else(select_option_id(options, mapping.reject_option_id, "RejectOnce"),
                            select_option_id(options, mapping.reject_option_id, "RejectAlways"))
              [] decision = "Cancel" -> None
    IN  IF selected_id # None THEN Selected(selected_id) ELSE Cancelled

(***************************************************************************)
(* provider.rs: data.                                                      *)
(***************************************************************************)
GooseMode == {"Auto", "Approve", "SmartApprove", "Chat"}

\* crate::permission::Permission
Permission == {"AlwaysAllow", "AllowOnce", "DenyOnce", "AlwaysDeny", "Cancel"}

ToolCallIds == {"t1", "t2"}

Streams == 1..MaxStreams
NoStream == 0

\* mpsc::channel(64) of prompt()
UpdateChannelCapacity == 64

\* the offers the peer attaches to request_permission
RequestedOptionLists ==
    {<<[option_id |-> "x", kind |-> "AllowOnce"], [option_id |-> "y", kind |-> "RejectOnce"]>>}

\* the mappings the adapter is constructed with in Spec
AdapterMappings ==
    {m \in PermissionMapping : m.allow_option_id = None /\ m.reject_option_id = None}

InternalError == [outcome |-> "InternalError", option_id |-> None]

\* enum AcpUpdate; req is the index of the request a PermissionRequest carries
\* seq and turn are stamped when the update enters a channel: the number of the
\* peer message it came from, and the stream of the prompt then in flight
\* text is the String of AcpUpdate::Error, a sequence of words
\* content is the Vec<ToolCallContent> of ToolCallComplete, by block variant
AcpUpdate(type, id, status, req) ==
    [type |-> type, id |-> id, status |-> status, req |-> req, seq |-> 0, turn |-> 0,
     text |-> << >>, content |-> << >>]

NoUpdate == AcpUpdate("NoUpdate", None, None, 0)

\* Option<Vec<ToolCallContent>> of ToolCallUpdateFields.content
NoContent == [present |-> FALSE, blocks |-> << >>]
SomeContent(blocks) == [present |-> TRUE, blocks |-> blocks]

\* Option::unwrap_or_default
unwrap_or_default(option) == IF option.present THEN option.blocks ELSE << >>

\* the text of a text chunk, in pieces (<< >>: the empty string)
ChunkTexts == {<< >>, <<"a">>, <<"b">>}

\* SessionNotification.update as the peer sends it (status None: field absent;
\* block: the ContentBlock variant of a chunk; content: fields.content of a
\* tool-call update; text: the text of a text chunk)
SessionUpdate ==
    [update : {"AgentMessageChunk", "AgentThoughtChunk"}, id : {None}, status : {None},
     block : {"Text"}, content : {NoContent}, text : ChunkTexts]
    \cup [update : {"AgentMessageChunk", "AgentThoughtChunk"}, id : {None}, status : {None},
          block : {"Image"}, content : {NoContent}, text : {<< >>}]
    \cup [update : {"Plan"}, id : {None}, status : {None},
          block : {None}, content : {NoContent}, text : {<< >>}]
    \cup [update : {"ToolCall"}, id : ToolCallIds, status : {None},
          block : {None}, content : {NoContent}, text : {<< >>}]
    \cup [update : {"ToolCallUpdate"}, id : ToolCallIds, status : ToolCallStatus \cup {None},
          block : {None}, content : {NoContent, SomeContent(<< >>), SomeContent(<<"Text">>)},
          text : {<< >>}]

\* the notifications that carry neither text nor content
PlainUpdates ==
    {n \in SessionUpdate : n.text = << >> /\ n.content = NoContent /\ n.block # "Image"}

\* the notifications the peer sends in Spec
PeerUpdates ==
    {n \in PlainUpdates :
        \/ n.update \in {"AgentMessageChunk", "Plan"}
        \/ n.update = "ToolCallUpdate" /\ n.id = "t1" /\ n.status # "Pending"
        \/ n.update = "ToolCallUpdate" /\ n.id = "t2" /\ n.status = "Completed"}

\* the tool calls the peer asks permission for in Spec
PeerPermissionIds == {"t1"}

\* the peer's response to a prompt request: Ok(PromptResponse), or Err(e) with
\* e.to_string() as a sequence of words
NoResult == [kind |-> None, text |-> << >>]
PromptOk == [kind |-> "Ok", text |-> << >>]
PromptErr(text) == [kind |-> "Err", text |-> text]

\* the responses the peer gives in Spec
PromptResults == {PromptOk, PromptErr(<<"internal", "error">>)}

\* mutant: a tool-call update without a status is forwarded as well
TranslateUpdate_without_status(n) ==
    CASE n.update = "AgentMessageChunk" /\ n.block = "Text" ->
            [AcpUpdate("Text", None, None, 0) EXCEPT !.text = n.text]
      [] n.update = "AgentThoughtChunk" /\ n.block = "Text" ->
            [AcpUpdate("Thought", None, None, 0) EXCEPT !.text = n.text]
      [] n.update = "ToolCall" -> AcpUpdate("ToolCallStart", n.id, None, 0)
      [] n.update = "ToolCallUpdate" ->
            [AcpUpdate("ToolCallComplete", n.id, n.status, 0)
                EXCEPT !.content = unwrap_or_default(n.content)]
      [] OTHER -> NoUpdate

\* the match of the notification callback: the AcpUpdate a notification becomes
TranslateUpdate(n) ==
    CASE n.update = "AgentMessageChunk" /\ n.block = "Text" ->
            [AcpUpdate("Text", None, None, 0) EXCEPT !.text = n.text]
      [] n.update = "AgentThoughtChunk" /\ n.block = "Text" ->
            [AcpUpdate("Thought", None, None, 0) EXCEPT !.text = n.text]
      [] n.update = "ToolCall" -> AcpUpdate("ToolCallStart", n.id, None, 0)
      [] n.update = "ToolCallUpdate" /\ n.status # None ->
            [AcpUpdate("ToolCallComplete", n.id, n.status, 0)
                EXCEPT !.content = unwrap_or_default(n.content)]
      [] OTHER -> NoUpdate

\* ProviderError as stream() returns it
NoFailure == [kind |-> None, text |-> << >>]
RequestFailed(text) == [kind |-> "RequestFailed", text |-> text]

\* what stream() yields to its caller
\* text: the text of a text or thinking message
Item(s, kind, id, status, is_error, seq) ==
    [stream |-> s, kind |-> kind, id |-> id, status |-> status, is_error |-> is_error,
     seq |-> seq, failure |-> NoFailure, text |-> << >>]

NoItem == Item(NoStream, "NoItem", None, None, FALSE, 0)

\* mutant: DenyOnce is taken for AllowOnce
permission_decision_from_confirmation_deny_allows(permission) ==
    CASE permission = "AlwaysAllow" -> "AllowAlways"
      [] permission = "AllowOnce" -> "AllowOnce"
      [] permission = "DenyOnce" -> "AllowOnce"
      [] permission = "AlwaysDeny" -> "RejectAlways"
      [] permission = "Cancel" -> "Cancel"

permission_decision_from_confirmation(permission) ==
    CASE permission = "AlwaysAllow" -> "AllowAlways"
      [] permission = "AllowOnce" -> "AllowOnce"
      [] permission = "DenyOnce" -> "RejectOnce"
      [] permission = "AlwaysDeny" -> "RejectAlways"
      [] permission = "Cancel" -> "Cancel"

\* mutant: Chat asks the user
permission_decision_from_mode_chat_asks(mode) ==
    CASE mode = "Auto" -> "AllowOnce"
      [] mode \in {"Approve", "SmartApprove", "Chat"} -> None

permission_decision_from_mode(mode) ==
    CASE mode = "Auto" -> "AllowOnce"
      [] mode = "Chat" -> "RejectOnce"
      [] mode \in {"Approve", "SmartApprove"} -> None

\* mutant: the configured rejected_tool_status is not consulted
tool_call_is_error_any_rejected(was_rejected, mapping, status) ==
    CASE status = "Failed" -> TRUE
      [] status = "Completed" -> was_rejected
      [] OTHER -> FALSE

\* tool_call_is_error: the flag (the removal from the set is in StreamToolCallComplete)
tool_call_is_error(was_rejected, mapping, status) ==
    CASE status = "Failed" -> TRUE
      [] status = "Completed" ->
            was_rejected /\ mapping.rejected_tool_status = "Completed"
      [] OTHER -> FALSE

\* mutant: a rejecting decision is not remembered
RecordRejection_forgets(rejected, tool_call_id, decision) == rejected

\* permission_response: the set after the call
RecordRejection(rejected, tool_call_id, decision) ==
    IF should_record_rejection(decision) THEN rejected \cup {tool_call_id} ELSE rejected

(***************************************************************************)
(* provider.rs: configuration, servers, session modes, mutexes.            *)
(***************************************************************************)
\* ExtensionConfig by variant ("Builtin" stands for every variant that
\* extension_configs_to_mcp_servers does not name) and McpServer by variant
ExtensionKinds == {"Stdio", "StreamableHttp", "Sse", "Builtin"}
McpServerKinds == {"Stdio", "Http", "Sse"}
ServerNames == {"a", "b"}

ExtensionConfig == [kind : ExtensionKinds, name : ServerNames]
McpServer == [kind : McpServerKinds, name : ServerNames]

\* extension_configs_to_mcp_servers: the loop over configs, pushing in order
RECURSIVE extension_configs_to_mcp_servers(_)
extension_configs_to_mcp_servers(configs) ==
    IF configs = << >> THEN << >>
    ELSE LET config_ == Head(configs)
             pushed == CASE config_.kind = "StreamableHttp" ->
                                <<[kind |-> "Http", name |-> config_.name]>>
                         [] config_.kind = "Stdio" ->
                                <<[kind |-> "Stdio", name |-> config_.name]>>
                         [] OTHER -> << >>
         IN  pushed \o extension_configs_to_mcp_servers(Tail(configs))

\* mutant: an HTTP server is sent whatever the agent advertised
filter_supported_servers_keeps_http(servers, capabilities) ==
    SelectSeq(servers, LAMBDA server : server.kind # "Sse")

\* filter_supported_servers: iter().filter(..).cloned().collect()
filter_supported_servers(servers, capabilities) ==
    SelectSeq(servers,
              LAMBDA server : CASE server.kind = "Http" -> capabilities.http
                                [] server.kind = "Sse" -> FALSE
                                [] OTHER -> TRUE)

\* session mode ids; SessionModeState as new_session returns it (advertised
\* FALSE: the response has no modes)
SessionModeIds == {"ask", "code"}

SessionModeState(current_mode_id, available_modes) ==
    [advertised |-> TRUE, current_mode_id |-> current_mode_id,
     available_modes |-> available_modes]

NoModes == [advertised |-> FALSE, current_mode_id |-> None, available_modes |-> << >>]

\* the elements of a sequence
Range(seq) == {seq[i] : i \in DOMAIN seq}

\* AcpProviderConfig: the fields the protocol task reads, and the extensions
\* from_env projected mcp_servers from (none when the config was built directly)
AcpProviderConfig(session_mode_id, extensions, mcp_servers) ==
    [session_mode_id |-> session_mode_id, extensions |-> extensions,
     mcp_servers |-> mcp_servers]

\* the configuration of the adapter where the specification does not vary it
DefaultConfig == AcpProviderConfig("code", << >>, << >>)

\* the mutexes: prompt_response_tx of run_protocol_loop_with_transport and the
\* four of AcpProvider
Mutexes == {"prompt_response_tx", "pending_confirmations", "rejected_tool_calls",
            "sessions", "goose_to_acp_id"}

\* lock() returns at once: no guard of the mutex is alive
Free(mutex) == locks[mutex] = None

\* lock(): the holder owns the guard
Lock(held, mutex, holder) == [held EXCEPT ![mutex] = holder]

\* mutant: the guard outlives its statement
Unlock_leaks(held, mutex) == held

\* the guard is dropped: a temporary at the end of its statement, a binding at
\* the end of its scope
Unlock(held, mutex) == [held EXCEPT ![mutex] = None]

\* a critical section run from lock() to the drop of the guard
Critical(held, mutex, holder) == Unlock(Lock(held, mutex, holder), mutex)

\* complete_with_model: not called ("idle"), draining the stream, or returned
\* with result; text and last_error are its locals
\* complete_with_model: where the call stands, its text and last_error, the
\* seq of the item it took last, and what it returned
NoCompletion == [pc |-> "idle", text |-> << >>, last_error |-> [kind |-> None, text |-> << >>],
                 seq |-> 0, result |-> [kind |-> None, text |-> << >>]]

(***************************************************************************)
(* Channels.                                                               *)
(***************************************************************************)
\* the receiver of the ClientRequest channel exists: the protocol task owns it
\* until it ends
RxOpen == task.pc # "terminated"

\* the connection serves inbound messages: initialize is done, the task runs
Connected == task.pc \notin {"init", "terminated"}

\* the receiver of stream s exists and is open
ReceiverOpen(s) == s # NoStream /\ stream_pc[s] \in {"recv", "confirm"}

\* what the notification callback finds in the sink: no sender, a sender whose
\* receiver is gone, or a sender of a live channel
SinkState == IF prompt_response_tx = NoStream THEN "None"
             ELSE IF ReceiverOpen(prompt_response_tx) THEN "Open" ELSE "Closed"

\* mutant: a closed receiver is not noticed
CanSend_ignores_closed(s) == s # NoStream /\ Len(updates[s]) < UpdateChannelCapacity

\* mpsc::Sender::try_send succeeds
CanSend(s) == ReceiverOpen(s) /\ Len(updates[s]) < UpdateChannelCapacity

RECURSIVE SumUpTo(_, _)
SumUpTo(f, n) == IF n = 0 THEN 0 ELSE f[n] + SumUpTo(f, n - 1)

\* the number of peer messages so far that reached a stream, were answered or
\* were refused by a full channel
PeerMessages == peer_sent + SumUpTo(refused, MaxStreams)

\* an update as it enters a channel
Emitted(u) == [u EXCEPT !.seq = PeerMessages + 1, !.turn = task.stream]

\* every sender of the channel of stream s is gone: the one travelling in the
\* queued ClientRequest::Prompt, the one the protocol task holds during the
\* prompt, and its clone in the sink
SendersDropped(s) ==
    /\ \A i \in 1..Len(requests) : requests[i].stream # s
    /\ task.stream # s
    /\ prompt_response_tx # s

\* HashMap::remove / HashMap::insert on pending_confirmations
MapRemove(map, key) == [k \in DOMAIN map \ {key} |-> map[k]]
MapInsert(map, key, value) == [k \in DOMAIN map \cup {key} |-> IF k = key THEN value ELSE map[k]]

\* the one-shots of confirmation after the sender stored under key is dropped
\* unsent (its entry is overwritten or removed): its receiver, if waiting, fails
SenderDropped(conf, map, key, except) ==
    IF key \in DOMAIN map /\ map[key] # except /\ conf[map[key]] = "Empty"
       /\ stream_pc[map[key]] = "confirm"
    THEN [conf EXCEPT ![map[key]] = "Closed"]
    ELSE conf

\* the requests whose response_tx is dropped with the buffer of stream s
BufferedRequests(s) ==
    {updates[s][i].req : i \in {j \in 1..Len(updates[s]) : updates[s][j].type = "PermissionRequest"}}

\* mutant: the callback keeps waiting when its reply sender is dropped
ReplyCancelled_keeps_waiting(reqs, dropped) == reqs

\* response_rx.await.unwrap_or_else(Cancelled) of the request callback
ReplyCancelled(reqs, dropped) ==
    [i \in DOMAIN reqs |->
        IF i \in dropped /\ reqs[i].reply = NoResponse
        THEN [reqs[i] EXCEPT !.reply = Cancelled] ELSE reqs[i]]

(***************************************************************************)
(* Construction: AcpProvider::new_with_runtime.                            *)
(***************************************************************************)
\* initial_adapter, initial_init_rx and initial_pc tell how far connect has
\* come: new_with_runtime runs after init_rx has yielded Ok
Constructed(initial_adapter, initial_init_rx, initial_pc) ==
    /\ rejected_tool_calls = {}
    /\ pending_confirmations = << >>
    /\ requests = << >>
    /\ task = [pc |-> initial_pc, stream |-> NoStream, dispatched |-> 0, answered |-> 0,
               call |-> 0, session |-> 0, mcp_capabilities |-> [http |-> FALSE],
               servers |-> << >>, modes |-> NoModes]
    /\ prompt_response_tx = NoStream
    /\ updates = [s \in Streams |-> << >>]
    /\ stream_pc = [s \in Streams |-> "unused"]
    /\ stream_req = [s \in Streams |-> 0]
    /\ confirmation = [s \in Streams |-> "Empty"]
    /\ permission_requests = << >>
    /\ yielded = NoItem
    /\ peer_sent = 0
    /\ refused = [s \in Streams |-> 0]
    /\ prompt_result = [s \in Streams |-> NoResult]
    /\ adapter = initial_adapter
    /\ init_rx = initial_init_rx
    /\ calls = << >>
    /\ goose_to_acp_id = << >>
    /\ peer_sessions = 0
    /\ completion = NoCompletion
    /\ notifications = << >>
    /\ locks = [mutex \in Mutexes |-> None]

AdapterConstructed == Constructed("live", "Ok", "recv")

\* the state the session calls, connect and Drop work on
lvars == <<adapter, init_rx, calls, goose_to_acp_id, peer_sessions>>

avars == <<goose_mode, rejected_tool_calls, pending_confirmations, requests, task,
           prompt_response_tx, updates, stream_pc, stream_req, confirmation,
           permission_requests, yielded, peer_sent, refused, prompt_result, lvars,
           config, completion, notifications, locks>>

(***************************************************************************)
(* SpecMap: the mapper applied to every bounded input.                     *)
(***************************************************************************)
mvars == <<permission_mapping, m_options, m_decision, m_response>>

InitMap ==
    /\ AdapterConstructed
    /\ config = DefaultConfig
    /\ goose_mode = "Approve"
    /\ permission_mapping \in PermissionMapping
    /\ m_options \in OptionLists
    /\ m_decision \in PermissionDecision
    /\ m_response = NoResponse

MapPermissionResponse ==
    /\ m_response = NoResponse
    /\ m_response' = map_permission_response(permission_mapping, m_options, m_decision)
    /\ UNCHANGED <<permission_mapping, m_options, m_decision>>
    /\ UNCHANGED avars

NextMap == MapPermissionResponse

vars == <<mvars, avars>>

SpecMap == InitMap /\ [][NextMap]_vars

(***************************************************************************)
(* Spec: caller, streams, protocol task and peer.                          *)
(***************************************************************************)
Init ==
    /\ AdapterConstructed
    /\ config = DefaultConfig
    /\ goose_mode \in GooseMode
    /\ permission_mapping \in AdapterMappings
    /\ m_options = << >>
    /\ m_decision = "Cancel"
    /\ m_response = NoResponse

\* AcpProvider::stream up to the creation of the generator, with prompt():
\* a fresh update channel, its sender enqueued in ClientRequest::Prompt.
\* The caller starts a stream once its previous one has ended or been dropped
\* (the previous prompt may still be in flight in the protocol task).
Stream(s) ==
    /\ adapter = "live"
    /\ RxOpen
    /\ stream_pc[s] = "unused"
    /\ \A r \in Streams : r < s => stream_pc[r] \in {"done", "failed", "dropped"}
    /\ requests' = Append(requests, [type |-> "Prompt", stream |-> s, call |-> 0])
    /\ stream_pc' = [stream_pc EXCEPT ![s] = "recv"]
    /\ UNCHANGED <<mvars, config, completion, notifications, locks, lvars, refused, prompt_result, goose_mode, rejected_tool_calls, pending_confirmations, task,
                   prompt_response_tx, updates, stream_req, confirmation,
                   permission_requests, yielded, peer_sent>>

\* handle_requests, ClientRequest::Prompt: set the sink, send the prompt request
TaskPrompt ==
    /\ task.pc = "recv"
    /\ requests # << >>
    /\ Head(requests).type = "Prompt"
    /\ prompt_response_tx' = Head(requests).stream
    /\ task' = [task EXCEPT !.pc = "prompt", !.stream = Head(requests).stream,
                            !.dispatched = @ + 1]
    /\ requests' = Tail(requests)
    /\ Free("prompt_response_tx")
    /\ locks' = Critical(locks, "prompt_response_tx", "task")
    /\ UNCHANGED <<mvars, config, completion, notifications, lvars, refused, prompt_result, goose_mode, rejected_tool_calls, pending_confirmations,
                   updates, stream_pc, stream_req, confirmation, permission_requests,
                   yielded, peer_sent>>

\* AcpUpdate::Complete(r.stop_reason) or AcpUpdate::Error(e.to_string())
TerminalUpdate(result) ==
    IF result.kind = "Ok"
    THEN AcpUpdate("Complete", None, None, 0)
    ELSE [AcpUpdate("Error", None, None, 0) EXCEPT !.text = result.text]

\* mutant: the sink is not cleared after the turn
PromptResponse_keeps_sink(result) ==
    /\ task.pc = "prompt"
    /\ updates' =
         IF CanSend(task.stream)
         THEN [updates EXCEPT ![task.stream] =
                  Append(@, Emitted(TerminalUpdate(result)))]
         ELSE updates
    /\ prompt_result' = IF ReceiverOpen(task.stream)
                         THEN [prompt_result EXCEPT ![task.stream] = result]
                         ELSE prompt_result
    /\ task' = [task EXCEPT !.pc = "recv", !.stream = NoStream, !.answered = @ + 1]
    /\ UNCHANGED <<mvars, config, completion, notifications, locks, lvars, refused, goose_mode, rejected_tool_calls, pending_confirmations,
                   requests, stream_pc, stream_req, confirmation, permission_requests,
                   yielded, peer_sent, prompt_response_tx>>

\* handle_requests, the prompt response arrives: try_send Complete or Error,
\* clear the sink
PromptResponse(result) ==
    /\ task.pc = "prompt"
    /\ updates' =
         IF CanSend(task.stream)
         THEN [updates EXCEPT ![task.stream] =
                  Append(@, Emitted(TerminalUpdate(result)))]
         ELSE updates
    /\ prompt_response_tx' = NoStream
    /\ prompt_result' = IF ReceiverOpen(task.stream)
                         THEN [prompt_result EXCEPT ![task.stream] = result]
                         ELSE prompt_result
    /\ task' = [task EXCEPT !.pc = "recv", !.stream = NoStream, !.answered = @ + 1]
    /\ Free("prompt_response_tx")
    /\ locks' = Critical(locks, "prompt_response_tx", "task")
    /\ UNCHANGED <<mvars, config, completion, notifications, lvars, refused, goose_mode, rejected_tool_calls, pending_confirmations,
                   requests, stream_pc, stream_req, confirmation, permission_requests,
                   yielded, peer_sent>>

\* the notification callback: translate and try_send into the sink, if any;
\* the result of try_send is discarded
OnNotification(n, max_messages, max_recorded) ==
    /\ Connected
    /\ PeerMessages < max_messages
    /\ IF prompt_response_tx # NoStream /\ TranslateUpdate(n) # NoUpdate
       THEN IF CanSend(prompt_response_tx)
            THEN /\ updates' = [updates EXCEPT ![prompt_response_tx] =
                                   Append(@, Emitted(TranslateUpdate(n)))]
                 /\ peer_sent' = peer_sent + 1
                 /\ UNCHANGED refused
            ELSE IF ReceiverOpen(prompt_response_tx)
                 THEN /\ refused' = [refused EXCEPT ![prompt_response_tx] = @ + 1]
                      /\ UNCHANGED <<updates, peer_sent>>
                 ELSE UNCHANGED <<updates, peer_sent, refused>>
       ELSE UNCHANGED <<updates, peer_sent, refused>>
    /\ Free("prompt_response_tx")
    /\ locks' = Critical(locks, "prompt_response_tx", "callback")
    /\ IF max_recorded = 0
       THEN UNCHANGED notifications
       ELSE /\ Len(notifications) < max_recorded
            /\ notifications' = Append(notifications, [update |-> n, sink |-> SinkState])
    /\ UNCHANGED <<mvars, config, completion, lvars, prompt_result, goose_mode, rejected_tool_calls,
                   pending_confirmations, requests, task, prompt_response_tx, stream_pc,
                   stream_req, confirmation, permission_requests, yielded>>

Notification(n) == OnNotification(n, MaxPeerMessages, 0)

\* the request callback: forward the request with a reply one-shot into the
\* sink, or answer the peer with an internal error
RequestPermission(t, options) ==
    /\ Connected
    /\ PeerMessages < MaxPeerMessages
    /\ peer_sent' = peer_sent + 1
    /\ LET forwarded == prompt_response_tx # NoStream /\ CanSend(prompt_response_tx)
           req == [tool_call_id |-> t, options |-> options,
                   stream |-> IF forwarded THEN prompt_response_tx ELSE NoStream,
                   decision |-> None, confirmed |-> None, completed_after |-> FALSE,
                   reply |-> IF forwarded THEN NoResponse ELSE InternalError]
       IN  /\ permission_requests' = Append(permission_requests, req)
           /\ updates' =
                IF forwarded
                THEN [updates EXCEPT ![prompt_response_tx] =
                         Append(@, Emitted(AcpUpdate("PermissionRequest", t, None,
                                                     Len(permission_requests) + 1)))]
                ELSE updates
    /\ Free("prompt_response_tx")
    /\ locks' = Critical(locks, "prompt_response_tx", "callback")
    /\ UNCHANGED <<mvars, config, completion, notifications, lvars, refused, prompt_result, goose_mode, rejected_tool_calls, pending_confirmations,
                   requests, task, prompt_response_tx, stream_pc, stream_req,
                   confirmation, yielded>>

\* mutant: the stream takes the newest buffered update first
StreamMessage_newest_first(s) ==
    /\ stream_pc[s] = "recv"
    /\ updates[s] # << >>
    /\ updates[s][Len(updates[s])].type \in {"Text", "Thought", "ToolCallStart"}
    /\ yielded' = [Item(s, updates[s][Len(updates[s])].type, updates[s][Len(updates[s])].id,
                        None, FALSE, updates[s][Len(updates[s])].seq)
                       EXCEPT !.text = updates[s][Len(updates[s])].text]
    /\ updates' = [updates EXCEPT ![s] = SubSeq(@, 1, Len(@) - 1)]
    /\ UNCHANGED <<mvars, config, completion, notifications, locks, lvars, refused, prompt_result, goose_mode, rejected_tool_calls, pending_confirmations,
                   requests, task, prompt_response_tx, stream_pc, stream_req,
                   confirmation, permission_requests, peer_sent>>

\* stream(): AcpUpdate::Text, Thought, ToolCallStart are yielded as messages
StreamMessage(s) ==
    /\ stream_pc[s] = "recv"
    /\ updates[s] # << >>
    /\ Head(updates[s]).type \in {"Text", "Thought", "ToolCallStart"}
    /\ yielded' = [Item(s, Head(updates[s]).type, Head(updates[s]).id, None, FALSE,
                        Head(updates[s]).seq)
                       EXCEPT !.text = Head(updates[s]).text]
    /\ updates' = [updates EXCEPT ![s] = Tail(@)]
    /\ UNCHANGED <<mvars, config, completion, notifications, locks, lvars, refused, prompt_result, goose_mode, rejected_tool_calls, pending_confirmations,
                   requests, task, prompt_response_tx, stream_pc, stream_req,
                   confirmation, permission_requests, peer_sent>>

\* stream(): AcpUpdate::ToolCallComplete, with tool_call_is_error
StreamToolCallComplete(s) ==
    /\ stream_pc[s] = "recv"
    /\ updates[s] # << >>
    /\ Head(updates[s]).type = "ToolCallComplete"
    /\ LET u == Head(updates[s])
           was_rejected == u.id \in rejected_tool_calls
       IN  /\ rejected_tool_calls' = rejected_tool_calls \ {u.id}
           /\ yielded' =
                 Item(s, "ToolResponse", u.id, u.status,
                      tool_call_is_error(was_rejected, permission_mapping, u.status),
                      u.seq)
           /\ permission_requests' =
                 [i \in DOMAIN permission_requests |->
                    IF /\ permission_requests[i].tool_call_id = u.id
                       /\ permission_requests[i].decision # None
                    THEN [permission_requests[i] EXCEPT !.completed_after = TRUE]
                    ELSE permission_requests[i]]
    /\ updates' = [updates EXCEPT ![s] = Tail(@)]
    /\ Free("rejected_tool_calls")
    /\ locks' = Critical(locks, "rejected_tool_calls", "stream")
    /\ UNCHANGED <<mvars, config, completion, notifications, lvars, refused, prompt_result, goose_mode, pending_confirmations, requests, task,
                   prompt_response_tx, stream_pc, stream_req, confirmation, peer_sent>>

\* stream(): AcpUpdate::PermissionRequest when the mode decides
StreamPermissionFromMode(s) ==
    /\ stream_pc[s] = "recv"
    /\ updates[s] # << >>
    /\ Head(updates[s]).type = "PermissionRequest"
    /\ permission_decision_from_mode(goose_mode) # None
    /\ LET u == Head(updates[s])
           decision == permission_decision_from_mode(goose_mode)
           request == permission_requests[u.req]
       IN  /\ rejected_tool_calls' =
                RecordRejection(rejected_tool_calls, request.tool_call_id, decision)
           /\ permission_requests' = [permission_requests EXCEPT ![u.req] =
                [@ EXCEPT !.decision = decision,
                          !.reply = map_permission_response(permission_mapping,
                                                            request.options, decision)]]
    /\ updates' = [updates EXCEPT ![s] = Tail(@)]
    /\ should_record_rejection(permission_decision_from_mode(goose_mode))
            => Free("rejected_tool_calls")
    /\ locks' = IF should_record_rejection(permission_decision_from_mode(goose_mode))
                THEN Critical(locks, "rejected_tool_calls", "stream") ELSE locks
    /\ UNCHANGED <<mvars, config, completion, notifications, lvars, refused, prompt_result, goose_mode, pending_confirmations, requests, task,
                   prompt_response_tx, stream_pc, stream_req, confirmation, yielded, peer_sent>>

\* stream(): AcpUpdate::PermissionRequest when the user decides: insert the
\* one-shot sender, yield the action-required message, suspend
StreamPermissionAsk(s) ==
    /\ stream_pc[s] = "recv"
    /\ updates[s] # << >>
    /\ Head(updates[s]).type = "PermissionRequest"
    /\ permission_decision_from_mode(goose_mode) = None
    /\ LET u == Head(updates[s])
           request_id == permission_requests[u.req].tool_call_id
       IN  /\ pending_confirmations' = MapInsert(pending_confirmations, request_id, s)
           /\ confirmation' = SenderDropped(confirmation, pending_confirmations, request_id, s)
           /\ yielded' = Item(s, "ActionRequired", request_id, None, FALSE, u.seq)
           /\ stream_req' = [stream_req EXCEPT ![s] = u.req]
    /\ stream_pc' = [stream_pc EXCEPT ![s] = "confirm"]
    /\ updates' = [updates EXCEPT ![s] = Tail(@)]
    /\ Free("pending_confirmations")
    /\ locks' = Critical(locks, "pending_confirmations", "stream")
    /\ UNCHANGED <<mvars, config, completion, notifications, lvars, refused, prompt_result, goose_mode, rejected_tool_calls, requests, task,
                   prompt_response_tx, permission_requests, peer_sent>>

\* stream(): polled again, the one-shot resolves (a value, or Cancel when its
\* sender was dropped): remove the entry, answer the peer
StreamConfirmed(s) ==
    /\ stream_pc[s] = "confirm"
    /\ confirmation[s] # "Empty"
    /\ LET permission == IF confirmation[s] = "Closed" THEN "Cancel" ELSE confirmation[s]
           request == permission_requests[stream_req[s]]
           request_id == request.tool_call_id
           decision == permission_decision_from_confirmation(permission)
       IN  /\ pending_confirmations' = MapRemove(pending_confirmations, request_id)
           /\ confirmation' =
                [SenderDropped(confirmation, pending_confirmations, request_id, s)
                    EXCEPT ![s] = "Empty"]
           /\ rejected_tool_calls' = RecordRejection(rejected_tool_calls, request_id, decision)
           /\ permission_requests' = [permission_requests EXCEPT ![stream_req[s]] =
                [@ EXCEPT !.decision = decision,
                          !.confirmed = confirmation[s],
                          !.reply = map_permission_response(permission_mapping,
                                                            request.options, decision)]]
    /\ stream_pc' = [stream_pc EXCEPT ![s] = "recv"]
    /\ stream_req' = [stream_req EXCEPT ![s] = 0]
    /\ Free("pending_confirmations")
    /\ Free("rejected_tool_calls")
    /\ locks' =
         LET permission == IF confirmation[s] = "Closed" THEN "Cancel" ELSE confirmation[s]
             removed == Critical(locks, "pending_confirmations", "stream")
         IN  IF should_record_rejection(permission_decision_from_confirmation(permission))
             THEN Critical(removed, "rejected_tool_calls", "stream") ELSE removed
    /\ UNCHANGED <<mvars, config, completion, notifications, lvars, refused, prompt_result, goose_mode, requests, task, prompt_response_tx, updates,
                   yielded, peer_sent>>

\* stream(): AcpUpdate::Complete ends the stream, AcpUpdate::Error ends it
\* with a failure item, and so does rx.recv() returning None once the channel
\* is empty and has no sender left; the receiver goes with the generator
StreamEnd(s) ==
    /\ stream_pc[s] = "recv"
    /\ IF updates[s] # << >>
       THEN Head(updates[s]).type \in {"Complete", "Error"}
       ELSE SendersDropped(s)
    /\ stream_pc' = [stream_pc EXCEPT ![s] =
                        IF updates[s] # << >> /\ Head(updates[s]).type = "Error"
                        THEN "failed" ELSE "done"]
    /\ yielded' = IF updates[s] # << >> /\ Head(updates[s]).type = "Error"
                  THEN [Item(s, "Error", None, None, TRUE, Head(updates[s]).seq)
                           EXCEPT !.failure = RequestFailed(Head(updates[s]).text)]
                  ELSE yielded
    /\ permission_requests' = ReplyCancelled(permission_requests, BufferedRequests(s))
    /\ updates' = [updates EXCEPT ![s] = << >>]
    /\ UNCHANGED <<mvars, config, completion, notifications, locks, lvars, refused, prompt_result, goose_mode, rejected_tool_calls, pending_confirmations,
                   requests, task, prompt_response_tx, stream_req, confirmation, peer_sent>>

\* the caller drops the stream at a suspension point: the generator never
\* resumes; its receiver, its buffered updates, the request it holds and its
\* one-shot receiver are dropped
StreamDrop(s) ==
    /\ stream_pc[s] \in {"recv", "confirm"}
    /\ stream_pc' = [stream_pc EXCEPT ![s] = "dropped"]
    /\ permission_requests' =
         ReplyCancelled(permission_requests,
                        BufferedRequests(s) \cup
                            (IF stream_pc[s] = "confirm" THEN {stream_req[s]} ELSE {}))
    /\ updates' = [updates EXCEPT ![s] = << >>]
    /\ stream_req' = [stream_req EXCEPT ![s] = 0]
    /\ confirmation' = [confirmation EXCEPT ![s] = "Empty"]
    /\ prompt_result' = [prompt_result EXCEPT ![s] = NoResult]
    /\ UNCHANGED <<mvars, config, completion, notifications, locks, lvars, refused, goose_mode, rejected_tool_calls, pending_confirmations,
                   requests, task, prompt_response_tx, yielded, peer_sent>>

\* the value handle_permission_confirmation returns: pending.remove found a sender
Handled(request_id) == request_id \in DOMAIN pending_confirmations

\* AcpProvider::handle_permission_confirmation
HandlePermissionConfirmation(request_id, permission) ==
    /\ adapter = "live"
    /\ IF Handled(request_id)
       THEN LET owner == pending_confirmations[request_id]
            IN  /\ pending_confirmations' = MapRemove(pending_confirmations, request_id)
                /\ confirmation' =
                     IF stream_pc[owner] = "confirm" /\ confirmation[owner] = "Empty"
                     THEN [confirmation EXCEPT ![owner] = permission]
                     ELSE confirmation
       ELSE UNCHANGED <<pending_confirmations, confirmation>>
    /\ Free("pending_confirmations")
    /\ locks' = Critical(locks, "pending_confirmations", "caller")
    /\ UNCHANGED <<mvars, config, completion, notifications, lvars, refused, prompt_result, goose_mode, rejected_tool_calls, requests, task,
                   prompt_response_tx, updates, stream_pc, stream_req,
                   permission_requests, yielded, peer_sent>>

\* the confirmations a caller may pass for request_id: a call that finds no
\* sender does not look at its confirmation, so one value stands for all
Confirmations(request_id) == IF Handled(request_id) THEN Permission ELSE {"Cancel"}

Next ==
    \/ \E s \in Streams : Stream(s)
    \/ TaskPrompt
    \/ \E result \in PromptResults : PromptResponse(result)
    \/ \E n \in PeerUpdates : Notification(n)
    \/ \E t \in PeerPermissionIds, options \in RequestedOptionLists :
            RequestPermission(t, options)
    \/ \E s \in Streams : StreamMessage(s)
    \/ \E s \in Streams : StreamToolCallComplete(s)
    \/ \E s \in Streams : StreamPermissionFromMode(s)
    \/ \E s \in Streams : StreamPermissionAsk(s)
    \/ \E s \in Streams : StreamConfirmed(s)
    \/ \E s \in Streams : StreamEnd(s)
    \/ \E s \in Streams : StreamDrop(s)
    \/ \E t \in ToolCallIds : \E permission \in Confirmations(t) :
            HandlePermissionConfirmation(t, permission)

Spec == Init /\ [][Next]_vars

(***************************************************************************)
(* SpecConcurrent: the caller also starts a stream while an earlier one is *)
(* still alive.                                                            *)
(***************************************************************************)
StreamConcurrent(s) ==
    /\ adapter = "live"
    /\ RxOpen
    /\ stream_pc[s] = "unused"
    /\ \A r \in Streams : r < s => stream_pc[r] # "unused"
    /\ requests' = Append(requests, [type |-> "Prompt", stream |-> s, call |-> 0])
    /\ stream_pc' = [stream_pc EXCEPT ![s] = "recv"]
    /\ UNCHANGED <<mvars, config, completion, notifications, locks, lvars, refused, prompt_result, goose_mode, rejected_tool_calls, pending_confirmations, task,
                   prompt_response_tx, updates, stream_req, confirmation,
                   permission_requests, yielded, peer_sent>>

NextConcurrent ==
    \/ \E s \in Streams : StreamConcurrent(s)
    \/ TaskPrompt
    \/ \E result \in PromptResults : PromptResponse(result)
    \/ \E n \in PeerUpdates : Notification(n)
    \/ \E t \in PeerPermissionIds, options \in RequestedOptionLists :
            RequestPermission(t, options)
    \/ \E s \in Streams : StreamMessage(s)
    \/ \E s \in Streams : StreamToolCallComplete(s)
    \/ \E s \in Streams : StreamPermissionFromMode(s)
    \/ \E s \in Streams : StreamPermissionAsk(s)
    \/ \E s \in Streams : StreamConfirmed(s)
    \/ \E s \in Streams : StreamEnd(s)
    \/ \E s \in Streams : StreamDrop(s)
    \/ \E t \in ToolCallIds : \E permission \in Confirmations(t) :
            HandlePermissionConfirmation(t, permission)

SpecConcurrent == Init /\ [][NextConcurrent]_vars

(***************************************************************************)
(* SpecFlood: one turn in which the peer sends more text chunks than the   *)
(* update channel holds, with a consumer of any speed that keeps the       *)
(* stream to its end.                                                      *)
(***************************************************************************)
FloodUpdates == {n \in PlainUpdates : n.update = "AgentMessageChunk"}

NotificationFlood(n) == OnNotification(n, MaxFloodMessages, 0)

NextFlood ==
    \/ Stream(1)
    \/ TaskPrompt
    \/ \E result \in PromptResults : PromptResponse(result)
    \/ \E n \in FloodUpdates : NotificationFlood(n)
    \/ StreamMessage(1)
    \/ StreamEnd(1)

SpecFlood == Init /\ [][NextFlood]_vars

(***************************************************************************)
(* SpecRejection: one turn in which the peer follows the life cycle of one *)
(* tool call: it asks permission, reports the call in progress, then       *)
(* reports its outcome once.                                               *)
(***************************************************************************)
RejectionScript == <<"RequestPermission", "InProgress", "Outcome">>

\* the message the peer sends next
ScriptStep == IF PeerMessages < Len(RejectionScript)
              THEN RejectionScript[PeerMessages + 1] ELSE None

ScriptedRequestPermission ==
    /\ ScriptStep = "RequestPermission"
    /\ \E options \in RequestedOptionLists : RequestPermission("t1", options)

ScriptedNotification(n) ==
    /\ n.update = "ToolCallUpdate"
    /\ n.id = "t1"
    /\ \/ ScriptStep = "InProgress" /\ n.status = "InProgress"
       \/ ScriptStep = "Outcome" /\ n.status \in {"Completed", "Failed"}
    /\ OnNotification(n, Len(RejectionScript), 0)

NextRejection ==
    \/ Stream(1)
    \/ TaskPrompt
    \/ \E result \in PromptResults : PromptResponse(result)
    \/ ScriptedRequestPermission
    \/ \E n \in PlainUpdates : ScriptedNotification(n)
    \/ StreamToolCallComplete(1)
    \/ StreamPermissionFromMode(1)
    \/ StreamPermissionAsk(1)
    \/ StreamConfirmed(1)
    \/ StreamEnd(1)
    \/ \E permission \in Confirmations("t1") : HandlePermissionConfirmation("t1", permission)

SpecRejection == Init /\ [][NextRejection]_vars

(***************************************************************************)
(* SpecError: one turn that the peer answers with an error, for each of    *)
(* the error texts.                                                        *)
(***************************************************************************)
\* e.to_string() of the peer's error, as words
ErrorTexts ==
    {<<"context", "window", "exceeded">>, <<"prompt", "is", "too", "long">>,
     <<"too", "many", "tokens">>, <<"too", "many", "requests">>, <<"rate", "limit">>}

NextError ==
    \/ Stream(1)
    \/ TaskPrompt
    \/ \E text \in ErrorTexts : PromptResponse(PromptErr(text))
    \/ \E n \in FloodUpdates : Notification(n)
    \/ StreamMessage(1)
    \/ StreamEnd(1)
    \/ StreamDrop(1)

SpecError == Init /\ [][NextError]_vars

(***************************************************************************)
(* SpecLife: connect, the session calls, one turn, the failure of the byte *)
(* stream and the drop of the adapter.                                     *)
(***************************************************************************)
GooseSessionIds == {"g1"}

\* the value of a reply one-shot (kind None: empty; "Closed": sender dropped
\* unsent) and of what a call returned
\* error tells why a session request failed: the reason and, when the
\* configured mode is not offered, the modes the message names
NoError == [reason |-> None, available |-> << >>]
Reply(kind, session) == [kind |-> kind, session |-> session, error |-> NoError]
NoReply == Reply(None, 0)
ReplyErr(reason, available) ==
    [Reply("Err", 0) EXCEPT !.error = [reason |-> reason, available |-> available]]

Call(op, key, pc, result) ==
    [op |-> op, key |-> key, pc |-> pc, rx |-> NoReply, result |-> result]

\* the calls that have sent a request and await its reply
Awaiting == {c \in DOMAIN calls : calls[c].pc = "await"}

\* let _ = response_tx.send(result)
Deliver(cs, c, reply) ==
    IF c \in DOMAIN cs /\ cs[c].pc = "await" THEN [cs EXCEPT ![c].rx = reply] ELSE cs

\* mutant: the requests still queued keep their reply senders when the
\* receiver of the ClientRequest channel is dropped
CloseQueued_keeps_senders(cs, reqs) == cs

\* the receiver of the ClientRequest channel is dropped with reqs queued: the
\* reply senders travelling in them are dropped unsent
CloseQueued(cs, reqs) ==
    [c \in DOMAIN cs |->
        IF cs[c].pc = "await" /\ cs[c].rx = NoReply
           /\ \E i \in 1..Len(reqs) : reqs[i].call = c
        THEN [cs[c] EXCEPT !.rx = Reply("Closed", 0)] ELSE cs[c]]

InitLife ==
    /\ Constructed("connecting", "Empty", "init")
    /\ config = DefaultConfig
    /\ goose_mode = "Approve"
    /\ permission_mapping = PermissionMappingDefault
    /\ m_options = << >>
    /\ m_decision = "Cancel"
    /\ m_response = NoResponse

\* handle_requests: the response to InitializeRequest arrives; an error is
\* reported through init_tx and ends the task before its loop
\* with its agent_capabilities.mcp_capabilities
InitializeResponse(ok, http) ==
    /\ task.pc = "init"
    /\ adapter = "connecting"
    /\ init_rx' = IF ok THEN "Ok" ELSE "Err"
    /\ task' = [task EXCEPT !.pc = IF ok THEN "recv" ELSE "terminated",
                            !.mcp_capabilities = [http |-> ok /\ http]]
    /\ UNCHANGED <<mvars, config, completion, notifications, locks, goose_mode, rejected_tool_calls, pending_confirmations, requests,
                   prompt_response_tx, updates, stream_pc, stream_req, confirmation,
                   permission_requests, yielded, peer_sent, refused, prompt_result,
                   adapter, calls, goose_to_acp_id, peer_sessions>>

\* mutant: connect builds the adapter whatever init_rx yields
ConnectReturns_ignores_error ==
    /\ adapter = "connecting"
    /\ init_rx # "Empty"
    /\ adapter' = "live"
    /\ UNCHANGED <<mvars, config, completion, notifications, locks, goose_mode, rejected_tool_calls, pending_confirmations, requests,
                   task, prompt_response_tx, updates, stream_pc, stream_req, confirmation,
                   permission_requests, yielded, peer_sent, refused, prompt_result,
                   init_rx, calls, goose_to_acp_id, peer_sessions>>

\* connect: init_rx.await.context(...)??, then new_with_runtime
ConnectReturns ==
    /\ adapter = "connecting"
    /\ init_rx # "Empty"
    /\ adapter' = IF init_rx = "Ok" THEN "live" ELSE "failed"
    /\ UNCHANGED <<mvars, config, completion, notifications, locks, goose_mode, rejected_tool_calls, pending_confirmations, requests,
                   task, prompt_response_tx, updates, stream_pc, stream_req, confirmation,
                   permission_requests, yielded, peer_sent, refused, prompt_result,
                   init_rx, calls, goose_to_acp_id, peer_sessions>>

\* mutant: new_session enqueues a prompt request
NewSession_as_prompt(op, key) ==
    IF RxOpen
    THEN /\ calls' = Append(calls, Call(op, key, "await", NoReply))
         /\ requests' = Append(requests, [type |-> "Prompt", stream |-> NoStream,
                                          call |-> Len(calls) + 1])
    ELSE /\ calls' = Append(calls, Call(op, key, "returned", Reply("Unavailable", 0)))
         /\ UNCHANGED requests

\* AcpProvider::new_session: send ClientRequest::NewSession, or fail with
\* "ACP client is unavailable" when the receiver is gone
NewSession(op, key) ==
    IF RxOpen
    THEN /\ calls' = Append(calls, Call(op, key, "await", NoReply))
         /\ requests' = Append(requests, [type |-> "NewSession", stream |-> NoStream,
                                          call |-> Len(calls) + 1])
    ELSE /\ calls' = Append(calls, Call(op, key, "returned", Reply("Unavailable", 0)))
         /\ UNCHANGED requests

\* ensure_session up to its first await on the reply: the lookup, then new_session
EnsureSession(k) ==
    /\ adapter = "live"
    /\ Len(calls) < MaxCalls
    /\ IF k \in DOMAIN goose_to_acp_id
       THEN /\ calls' = Append(calls, Call("ensure_session", k, "returned",
                                           Reply("Ok", goose_to_acp_id[k])))
            /\ UNCHANGED requests
       ELSE NewSession("ensure_session", k)
    /\ Free("goose_to_acp_id")
    /\ Free("sessions")
    /\ locks' = IF k \in DOMAIN goose_to_acp_id
                THEN Critical(locks, "goose_to_acp_id", "caller")
                ELSE Critical(Critical(locks, "goose_to_acp_id", "caller"), "sessions", "caller")
    /\ UNCHANGED <<mvars, config, completion, notifications, goose_mode, rejected_tool_calls, pending_confirmations,
                   task, prompt_response_tx, updates, stream_pc, stream_req, confirmation,
                   permission_requests, yielded, peer_sent, refused, prompt_result,
                   adapter, init_rx, goose_to_acp_id, peer_sessions>>

\* fetch_supported_models up to its await on the reply
FetchSupportedModels ==
    /\ adapter = "live"
    /\ Len(calls) < MaxCalls
    /\ NewSession("fetch_supported_models", None)
    /\ UNCHANGED <<mvars, config, completion, notifications, locks, goose_mode, rejected_tool_calls, pending_confirmations,
                   task, prompt_response_tx, updates, stream_pc, stream_req, confirmation,
                   permission_requests, yielded, peer_sent, refused, prompt_result,
                   adapter, init_rx, goose_to_acp_id, peer_sessions>>

\* AcpProvider::set_model up to its await on the reply
SetModel ==
    /\ adapter = "live"
    /\ Len(calls) < MaxCalls
    /\ IF RxOpen
       THEN /\ calls' = Append(calls, Call("set_model", None, "await", NoReply))
            /\ requests' = Append(requests, [type |-> "SetModel", stream |-> NoStream,
                                             call |-> Len(calls) + 1])
       ELSE /\ calls' = Append(calls, Call("set_model", None, "returned",
                                           Reply("Unavailable", 0)))
            /\ UNCHANGED requests
    /\ UNCHANGED <<mvars, config, completion, notifications, locks, goose_mode, rejected_tool_calls, pending_confirmations,
                   task, prompt_response_tx, updates, stream_pc, stream_req, confirmation,
                   permission_requests, yielded, peer_sent, refused, prompt_result,
                   adapter, init_rx, goose_to_acp_id, peer_sessions>>

\* the reply one-shot of call c resolves and the call returns; ensure_session
\* first inserts the id it got into goose_to_acp_id
CallReturn(c) ==
    /\ c \in Awaiting
    /\ calls[c].rx # NoReply
    /\ calls' = [calls EXCEPT ![c].pc = "returned", ![c].result = calls[c].rx]
    /\ goose_to_acp_id' =
         IF calls[c].op = "ensure_session" /\ calls[c].rx.kind = "Ok"
         THEN MapInsert(goose_to_acp_id, calls[c].key, calls[c].rx.session)
         ELSE goose_to_acp_id
    /\ Free("goose_to_acp_id")
    /\ locks' = IF calls[c].op = "ensure_session" /\ calls[c].rx.kind = "Ok"
                THEN Critical(locks, "goose_to_acp_id", "caller") ELSE locks
    /\ UNCHANGED <<mvars, config, completion, notifications, goose_mode, rejected_tool_calls, pending_confirmations, requests,
                   task, prompt_response_tx, updates, stream_pc, stream_req, confirmation,
                   permission_requests, yielded, peer_sent, refused, prompt_result,
                   adapter, init_rx, peer_sessions>>

\* mutant: rx.recv() yields the newest queued request
Recv_newest(reqs) == Len(reqs)

\* rx.recv() of handle_requests: the position of the request it yields
Recv(reqs) == 1

\* mutant: the protocol task also takes a request while it awaits the
\* response to a prompt
TaskTake_while_prompting(type, pc, servers) ==
    /\ task.pc \in {"recv", "prompt"}
    /\ requests # << >>
    /\ requests[Recv(requests)].type = type
    /\ task' = [task EXCEPT !.pc = pc, !.call = requests[Recv(requests)].call,
                            !.servers = servers, !.modes = NoModes]
    /\ requests' = SubSeq(requests, 1, Recv(requests) - 1)
                      \o SubSeq(requests, Recv(requests) + 1, Len(requests))

\* the protocol task takes a request of the given type from the channel
\* and sends the peer the request it asks for (servers: the mcp_servers of a
\* NewSessionRequest); modes keeps the SessionModeState of the answer to the
\* last NewSessionRequest until the task takes its next session request or ends
TaskTake(type, pc, servers) ==
    /\ task.pc = "recv"
    /\ requests # << >>
    /\ requests[Recv(requests)].type = type
    /\ task' = [task EXCEPT !.pc = pc, !.call = requests[Recv(requests)].call,
                            !.servers = servers, !.modes = NoModes]
    /\ requests' = SubSeq(requests, 1, Recv(requests) - 1)
                      \o SubSeq(requests, Recv(requests) + 1, Len(requests))

\* handle_requests, ClientRequest::NewSession: handle_new_session_request
\* filters the servers and sends NewSessionRequest
TaskNewSession ==
    /\ TaskTake("NewSession", "new_session",
                filter_supported_servers(config.mcp_servers, task.mcp_capabilities))
    /\ UNCHANGED <<mvars, config, completion, notifications, locks, lvars, goose_mode, rejected_tool_calls, pending_confirmations,
                   prompt_response_tx, updates, stream_pc, stream_req, confirmation,
                   permission_requests, yielded, peer_sent, refused, prompt_result>>

\* what the peer's answer to NewSessionRequest leads to: "Err" (session/new
\* failed), "Ok" (no mode to set), "BadModes" (the configured mode is not
\* advertised or not offered), "SetMode" (SetSessionModeRequest is sent)
NewSessionOutcomes == {"Err", "Ok", "BadModes", "SetMode"}

\* the peer's answer to NewSessionRequest: an error, or a session with its modes
SessionResponse(ok, modes) == [ok |-> ok, modes |-> modes]

\* the answers the peer gives where the specification does not vary them: one
\* for each outcome under DefaultConfig
PeerSessionResponses ==
    {SessionResponse(FALSE, NoModes),
     SessionResponse(TRUE, SessionModeState("code", <<"ask", "code">>)),
     SessionResponse(TRUE, SessionModeState("ask", <<"ask">>)),
     SessionResponse(TRUE, SessionModeState("ask", <<"ask", "code">>))}

\* mutant: the mode is requested without a look at the available modes
apply_session_mode_sets_unoffered(session_mode_id, modes) ==
    IF session_mode_id = None THEN "Ok"
    ELSE IF ~modes.advertised THEN "BadModes"
    ELSE IF modes.current_mode_id = session_mode_id THEN "Ok"
    ELSE "SetMode"

\* mutant: the mode is set even when it is the session's current mode
apply_session_mode_sets_current(session_mode_id, modes) ==
    IF session_mode_id = None THEN "Ok"
    ELSE IF ~modes.advertised THEN "BadModes"
    ELSE IF session_mode_id \notin Range(modes.available_modes) THEN "BadModes"
    ELSE "SetMode"

\* apply_session_mode up to its request: what the configured mode and the
\* modes of the new session lead to
apply_session_mode(session_mode_id, modes) ==
    IF session_mode_id = None THEN "Ok"
    ELSE IF ~modes.advertised THEN "BadModes"
    ELSE IF modes.current_mode_id = session_mode_id THEN "Ok"
    ELSE IF session_mode_id \notin Range(modes.available_modes) THEN "BadModes"
    ELSE "SetMode"

\* the Err of apply_session_mode when it sends no request
ModeError(modes) ==
    IF ~modes.advertised THEN ReplyErr("ACP agent did not advertise SessionModeState", << >>)
    ELSE ReplyErr("Requested mode not offered by agent. Available modes", modes.available_modes)

\* handle_new_session_request: the response arrives; apply_session_mode up to
\* its request, if it sends one; otherwise the reply
NewSessionResponse(session) ==
    /\ task.pc = "new_session"
    /\ peer_sessions' = IF session.ok THEN peer_sessions + 1 ELSE peer_sessions
    /\ LET outcome == IF session.ok
                      THEN apply_session_mode(config.session_mode_id, session.modes)
                      ELSE "Err"
       IN  IF outcome = "SetMode"
           THEN /\ task' = [task EXCEPT !.pc = "set_mode", !.session = peer_sessions + 1,
                                        !.servers = << >>, !.modes = session.modes]
                /\ UNCHANGED calls
           ELSE /\ task' = [task EXCEPT !.pc = "recv", !.call = 0, !.servers = << >>,
                                        !.modes = session.modes]
                /\ calls' = Deliver(calls, task.call,
                                    CASE outcome = "Ok" -> Reply("Ok", peer_sessions + 1)
                                      [] outcome = "BadModes" -> ModeError(session.modes)
                                      [] OTHER -> ReplyErr("ACP session/new failed", << >>))
    /\ UNCHANGED <<mvars, config, completion, notifications, locks, goose_mode, rejected_tool_calls, pending_confirmations, requests,
                   prompt_response_tx, updates, stream_pc, stream_req, confirmation,
                   permission_requests, yielded, peer_sent, refused, prompt_result,
                   adapter, init_rx, goose_to_acp_id>>

\* apply_session_mode: the response to SetSessionModeRequest arrives; the reply
SetSessionModeResponse(ok) ==
    /\ task.pc = "set_mode"
    /\ task' = [task EXCEPT !.pc = "recv", !.call = 0, !.session = 0]
    /\ calls' = Deliver(calls, task.call,
                        IF ok THEN Reply("Ok", task.session)
                        ELSE ReplyErr("ACP agent rejected session/set_mode", << >>))
    /\ UNCHANGED <<mvars, config, completion, notifications, locks, goose_mode, rejected_tool_calls, pending_confirmations, requests,
                   prompt_response_tx, updates, stream_pc, stream_req, confirmation,
                   permission_requests, yielded, peer_sent, refused, prompt_result,
                   adapter, init_rx, goose_to_acp_id, peer_sessions>>

\* handle_requests, ClientRequest::SetModel: send session/set_model
TaskSetModel ==
    /\ TaskTake("SetModel", "set_model", << >>)
    /\ UNCHANGED <<mvars, config, completion, notifications, locks, lvars, goose_mode, rejected_tool_calls, pending_confirmations,
                   prompt_response_tx, updates, stream_pc, stream_req, confirmation,
                   permission_requests, yielded, peer_sent, refused, prompt_result>>

\* handle_requests, ClientRequest::SetModel: the response arrives; the reply
SetModelResponse(ok) ==
    /\ task.pc = "set_model"
    /\ task' = [task EXCEPT !.pc = "recv", !.call = 0]
    /\ calls' = Deliver(calls, task.call,
                        IF ok THEN Reply("Ok", 0)
                        ELSE ReplyErr("ACP session/set_model failed", << >>))
    /\ UNCHANGED <<mvars, config, completion, notifications, locks, goose_mode, rejected_tool_calls, pending_confirmations, requests,
                   prompt_response_tx, updates, stream_pc, stream_req, confirmation,
                   permission_requests, yielded, peer_sent, refused, prompt_result,
                   adapter, init_rx, goose_to_acp_id, peer_sessions>>

\* Drop for AcpProvider: no call borrows the adapter any more; a task is
\* spawned that will send ClientRequest::Shutdown
AdapterDrop ==
    /\ adapter = "live"
    /\ Awaiting = {}
    /\ adapter' = "dropped"
    /\ UNCHANGED <<mvars, config, completion, notifications, locks, goose_mode, rejected_tool_calls, pending_confirmations, requests,
                   task, prompt_response_tx, updates, stream_pc, stream_req, confirmation,
                   permission_requests, yielded, peer_sent, refused, prompt_result,
                   init_rx, calls, goose_to_acp_id, peer_sessions>>

\* the task spawned by Drop: let _ = tx.send(ClientRequest::Shutdown).await
ShutdownSend ==
    /\ adapter = "dropped"
    /\ adapter' = "shutdown_sent"
    /\ requests' = IF RxOpen
                   THEN Append(requests, [type |-> "Shutdown", stream |-> NoStream, call |-> 0])
                   ELSE requests
    /\ UNCHANGED <<mvars, config, completion, notifications, locks, goose_mode, rejected_tool_calls, pending_confirmations,
                   task, prompt_response_tx, updates, stream_pc, stream_req, confirmation,
                   permission_requests, yielded, peer_sent, refused, prompt_result,
                   init_rx, calls, goose_to_acp_id, peer_sessions>>

\* handle_requests, ClientRequest::Shutdown => break: the task ends, the
\* receiver and the connection go with it
TaskShutdown ==
    /\ TaskTake("Shutdown", "terminated", << >>)
    /\ UNCHANGED <<mvars, config, completion, notifications, locks, lvars, goose_mode, rejected_tool_calls, pending_confirmations,
                   prompt_response_tx, updates, stream_pc, stream_req, confirmation,
                   permission_requests, yielded, peer_sent, refused, prompt_result>>

\* the text of the error a request in flight fails with when the byte stream fails
TransportError == <<"connection", "closed">>

\* the byte stream fails (or the agent exits): the protocol task ends wherever
\* it stands.  During initialize the error is reported through init_tx
\* (run_client_loop) or init_tx is dropped unsent (connect_with_transport).
\* The request in flight fails, and its handler reports the error (reported),
\* or the handler is dropped with the task before it can.  The receiver of the
\* ClientRequest channel, the queued requests and the sink are dropped.
TransportFails(reported) ==
    /\ task.pc # "terminated"
    /\ init_rx' = IF task.pc = "init" THEN (IF reported THEN "Err" ELSE "Closed") ELSE init_rx
    /\ task' = [task EXCEPT !.pc = "terminated", !.stream = NoStream, !.call = 0,
                            !.session = 0, !.servers = << >>, !.modes = NoModes]
    /\ requests' = << >>
    /\ prompt_response_tx' = NoStream
    /\ calls' = CloseQueued(Deliver(calls, task.call,
                                     IF reported THEN Reply("Err", 0) ELSE Reply("Closed", 0)),
                            requests)
    /\ updates' =
         IF task.pc = "prompt" /\ reported /\ CanSend(task.stream)
         THEN [updates EXCEPT ![task.stream] =
                  Append(@, Emitted(TerminalUpdate(PromptErr(TransportError))))]
         ELSE updates
    /\ prompt_result' =
         IF task.pc = "prompt" /\ reported /\ ReceiverOpen(task.stream)
         THEN [prompt_result EXCEPT ![task.stream] = PromptErr(TransportError)]
         ELSE prompt_result
    /\ UNCHANGED <<mvars, config, completion, notifications, locks, goose_mode, rejected_tool_calls, pending_confirmations,
                   stream_pc, stream_req, confirmation, permission_requests, yielded,
                   peer_sent, refused, adapter, goose_to_acp_id, peer_sessions>>

\* operation op has been called (in SpecLife each session call is made once)
Called(op) == \E c \in DOMAIN calls : calls[c].op = op

\* the confirmation the user gives in SpecLife
LifeConfirmations == {"AllowOnce"}

\* the confirmation the user gives in SpecAbandon
AbandonConfirmations == {"DenyOnce"}

NextLife ==
    \/ \E ok \in BOOLEAN : InitializeResponse(ok, FALSE)
    \/ ConnectReturns
    \/ \E reported \in BOOLEAN : TransportFails(reported)
    \/ ~Called("fetch_supported_models") /\ FetchSupportedModels
    \/ ~Called("set_model") /\ SetModel
    \/ \E c \in 1..MaxCalls : CallReturn(c)
    \/ TaskNewSession
    \/ \E session \in PeerSessionResponses : NewSessionResponse(session)
    \/ \E ok \in BOOLEAN : SetSessionModeResponse(ok)
    \/ TaskSetModel
    \/ \E ok \in BOOLEAN : SetModelResponse(ok)
    \/ AdapterDrop
    \/ ShutdownSend
    \/ TaskShutdown
    \/ Stream(1)
    \/ TaskPrompt
    \/ \E result \in PromptResults : PromptResponse(result)
    \/ \E t \in PeerPermissionIds, options \in RequestedOptionLists :
            RequestPermission(t, options)
    \/ StreamPermissionAsk(1)
    \/ StreamConfirmed(1)
    \/ StreamEnd(1)
    \/ StreamDrop(1)
    \/ \E t \in PeerPermissionIds : \E permission \in LifeConfirmations :
            HandlePermissionConfirmation(t, permission)

SpecLife == InitLife /\ [][NextLife]_vars

\* SpecLifeFair: a task that can run does run.  The protocol task takes the
\* next request when it is idle and one is queued, a caller whose reply
\* one-shot has resolved returns, a stream that is awaited is polled, the task
\* spawned by Drop sends, connect returns once init_rx has resolved.  Nothing
\* is assumed about the peer or the user.
LifeFairness ==
    /\ WF_vars(TaskNewSession) /\ WF_vars(TaskSetModel) /\ WF_vars(TaskPrompt)
    /\ WF_vars(TaskShutdown)
    /\ \A c \in 1..MaxCalls : WF_vars(CallReturn(c))
    /\ WF_vars(StreamPermissionAsk(1)) /\ WF_vars(StreamConfirmed(1))
    /\ WF_vars(StreamEnd(1))
    /\ WF_vars(ShutdownSend)
    /\ WF_vars(ConnectReturns)

SpecLifeFair == SpecLife /\ LifeFairness

(***************************************************************************)
(* SpecSession: the session calls of a connected adapter next to one turn. *)
(***************************************************************************)
InitSession ==
    /\ AdapterConstructed
    /\ config = DefaultConfig
    /\ goose_mode = "Approve"
    /\ permission_mapping = PermissionMappingDefault
    /\ m_options = << >>
    /\ m_decision = "Cancel"
    /\ m_response = NoResponse

NextSession ==
    \/ \E k \in GooseSessionIds : EnsureSession(k)
    \/ FetchSupportedModels
    \/ SetModel
    \/ \E c \in 1..MaxCalls : CallReturn(c)
    \/ TaskNewSession
    \/ \E session \in PeerSessionResponses : NewSessionResponse(session)
    \/ \E ok \in BOOLEAN : SetSessionModeResponse(ok)
    \/ TaskSetModel
    \/ \E ok \in BOOLEAN : SetModelResponse(ok)
    \/ Stream(1)
    \/ TaskPrompt
    \/ \E result \in PromptResults : PromptResponse(result)
    \/ \E n \in FloodUpdates : Notification(n)
    \/ StreamMessage(1)
    \/ StreamEnd(1)

SpecSession == InitSession /\ [][NextSession]_vars

(***************************************************************************)
(* SpecAbandon: one turn that the caller may drop at any point, next to    *)
(* session calls and the drop of the adapter, with every notification the  *)
(* callback handles recorded.                                              *)
(***************************************************************************)
\* the notifications the peer sends in SpecAbandon
AbandonUpdates ==
    {n \in PlainUpdates :
        \/ n.update = "AgentMessageChunk"
        \/ n.update = "ToolCallUpdate" /\ n.id = "t1" /\ n.status = "Completed"}

NotificationRecorded(n) == OnNotification(n, MaxPeerMessages, MaxRecorded)

\* the answers the peer gives to NewSessionRequest in SpecAbandon
AbandonSessionResponses ==
    {SessionResponse(FALSE, NoModes),
     SessionResponse(TRUE, SessionModeState("code", <<"ask", "code">>))}

NextAbandon ==
    \/ Stream(1)
    \/ TaskPrompt
    \/ \E result \in PromptResults : PromptResponse(result)
    \/ \E n \in AbandonUpdates : NotificationRecorded(n)
    \/ \E t \in PeerPermissionIds, options \in RequestedOptionLists :
            RequestPermission(t, options)
    \/ StreamMessage(1)
    \/ StreamToolCallComplete(1)
    \/ StreamPermissionAsk(1)
    \/ StreamConfirmed(1)
    \/ \E t \in PeerPermissionIds : \E permission \in AbandonConfirmations :
            HandlePermissionConfirmation(t, permission)
    \/ StreamEnd(1)
    \/ StreamDrop(1)
    \/ ~Called("fetch_supported_models") /\ FetchSupportedModels
    \/ ~Called("set_model") /\ SetModel
    \/ \E c \in 1..MaxCalls : CallReturn(c)
    \/ TaskNewSession
    \/ \E session \in AbandonSessionResponses : NewSessionResponse(session)
    \/ TaskSetModel
    \/ \E ok \in BOOLEAN : SetModelResponse(ok)
    \/ AdapterDrop
    \/ ShutdownSend
    \/ TaskShutdown

SpecAbandon == InitSession /\ [][NextAbandon]_vars

(***************************************************************************)
(* SpecMode: session creation for every configured session mode and every  *)
(* answer of the peer.                                                     *)
(***************************************************************************)
\* Option<String> of AcpProviderConfig.session_mode_id
ConfiguredModes == SessionModeIds \cup {None}

\* the answers the peer may give to NewSessionRequest: an error, a session
\* without modes, or a session with a current mode and up to MaxModes
\* available modes (the current mode need not be among them)
SessionResponses ==
    {SessionResponse(FALSE, NoModes), SessionResponse(TRUE, NoModes)}
    \cup {SessionResponse(TRUE, SessionModeState(current, available)) :
            current \in SessionModeIds, available \in SeqsUpTo(SessionModeIds, MaxModes)}

InitMode ==
    /\ AdapterConstructed
    /\ config \in {AcpProviderConfig(mode, << >>, << >>) : mode \in ConfiguredModes}
    /\ goose_mode = "Approve"
    /\ permission_mapping = PermissionMappingDefault
    /\ m_options = << >>
    /\ m_decision = "Cancel"
    /\ m_response = NoResponse

NextMode ==
    \/ \E k \in GooseSessionIds : EnsureSession(k)
    \/ FetchSupportedModels
    \/ \E c \in 1..MaxCalls : CallReturn(c)
    \/ TaskNewSession
    \/ \E session \in SessionResponses : NewSessionResponse(session)
    \/ \E ok \in BOOLEAN : SetSessionModeResponse(ok)

SpecMode == InitMode /\ [][NextMode]_vars

(***************************************************************************)
(* SpecTranslate: one turn in which the peer sends session updates of      *)
(* every kind, each recorded as the callback handles it.                   *)
(***************************************************************************)
\* the notifications the peer sends in SpecTranslate: every kind of update,
\* about one tool call
TranslateUpdates == {n \in SessionUpdate : n.id \in {None, "t1"}}

NextTranslate ==
    \/ Stream(1)
    \/ TaskPrompt
    \/ \E result \in PromptResults : PromptResponse(result)
    \/ \E n \in TranslateUpdates : NotificationRecorded(n)
    \/ StreamMessage(1)
    \/ StreamToolCallComplete(1)
    \/ StreamEnd(1)

SpecTranslate == InitSession /\ [][NextTranslate]_vars

(***************************************************************************)
(* SpecServers: the MCP servers from the provider's configuration to the   *)
(* NewSessionRequest.  The configuration is either built by from_env from  *)
(* the extensions or given to connect with its server list as it is.       *)
(***************************************************************************)
\* the length of the extension list and of a server list given directly
MaxServers == 3

\* the lists of at most n elements of a set
ListsUpTo(elements, n) == UNION {[1..len -> elements] : len \in 0..n}

InitServers ==
    /\ \/ /\ Constructed("configuring", "Empty", "init")
          /\ config \in {AcpProviderConfig("code", extensions, << >>) :
                            extensions \in ListsUpTo(ExtensionConfig, MaxServers)}
       \/ /\ Constructed("connecting", "Empty", "init")
          /\ config \in {AcpProviderConfig("code", << >>, mcp_servers) :
                            mcp_servers \in ListsUpTo(McpServer, MaxServers)}
    /\ goose_mode = "Approve"
    /\ permission_mapping = PermissionMappingDefault
    /\ m_options = << >>
    /\ m_decision = "Cancel"
    /\ m_response = NoResponse

\* from_env of the ACP providers: the configuration gets its mcp_servers from
\* the extensions, then connect is called
FromEnv ==
    /\ adapter = "configuring"
    /\ config' = [config EXCEPT
                    !.mcp_servers = extension_configs_to_mcp_servers(config.extensions)]
    /\ adapter' = "connecting"
    /\ UNCHANGED <<mvars, completion, notifications, locks, goose_mode, rejected_tool_calls, pending_confirmations, requests,
                   task, prompt_response_tx, updates, stream_pc, stream_req, confirmation,
                   permission_requests, yielded, peer_sent, refused, prompt_result,
                   init_rx, calls, goose_to_acp_id, peer_sessions>>

NextServers ==
    \/ FromEnv
    \/ \E ok \in BOOLEAN, http \in BOOLEAN : InitializeResponse(ok, http)
    \/ ConnectReturns
    \/ \E k \in GooseSessionIds : EnsureSession(k)
    \/ TaskNewSession
    \/ \E session \in AbandonSessionResponses : NewSessionResponse(session)
    \/ \E c \in 1..MaxCalls : CallReturn(c)

SpecServers == InitServers /\ [][NextServers]_vars

(***************************************************************************)
(* SpecComplete: complete_with_model drains the stream of one turn.        *)
(***************************************************************************)
\* str::contains, both strings as sequences of words
contains(msg, pattern) ==
    \E i \in 1..Len(msg) :
        /\ i + Len(pattern) - 1 <= Len(msg)
        /\ \A k \in 1..Len(pattern) : msg[i + k - 1] = pattern[k]

\* ProviderError::to_string: the variant's message before its text
to_string(err) ==
    (IF err.kind = "RequestFailed" THEN <<"Request", "failed:">>
     ELSE <<"Context", "length", "exceeded:">>) \o err.text

ContextLengthExceeded(msg) == [kind |-> "ContextLengthExceeded", text |-> msg]

classify_error(err) ==
    LET msg == to_string(err)
    IN  IF \/ contains(msg, <<"context", "window">>)
           \/ contains(msg, <<"too", "long">>)
           \/ contains(msg, <<"too", "many", "tokens">>)
        THEN ContextLengthExceeded(msg)
        ELSE err

\* Ok((message, usage)) with the text of the message
CompleteOk(text) == [kind |-> "Ok", text |-> text]

\* complete_with_model up to its loop; the stream is created by Stream(1)
CompleteWithModel ==
    /\ adapter = "live"
    /\ completion.pc = "idle"
    /\ completion' = [completion EXCEPT !.pc = "draining"]
    /\ UNCHANGED <<mvars, config, notifications, locks, lvars, goose_mode, rejected_tool_calls, pending_confirmations,
                   requests, task, prompt_response_tx, updates, stream_pc, stream_req,
                   confirmation, permission_requests, yielded, peer_sent, refused,
                   prompt_result>>

\* the loop has taken every item the stream has yielded
Taken == completion.seq = yielded.seq

\* one pass of the loop over stream.next(): the text of the Text items of an
\* Ok message is appended, an Err is kept as last_error
CompleteTake ==
    /\ completion.pc = "draining"
    /\ ~Taken
    /\ completion' =
         [completion EXCEPT
            !.seq = yielded.seq,
            !.text = IF yielded.kind = "Text" THEN @ \o yielded.text ELSE @,
            !.last_error = IF yielded.kind = "Error" THEN yielded.failure ELSE @]
    /\ UNCHANGED <<mvars, config, notifications, locks, lvars, goose_mode, rejected_tool_calls, pending_confirmations,
                   requests, task, prompt_response_tx, updates, stream_pc, stream_req,
                   confirmation, permission_requests, yielded, peer_sent, refused,
                   prompt_result>>

\* mutant: a failure of the stream is returned although text was collected
CompleteReturn_failure_first ==
    /\ completion.pc = "draining"
    /\ stream_pc[1] \in {"done", "failed"}
    /\ Taken
    /\ completion' =
         [completion EXCEPT
            !.pc = "returned",
            !.result = IF completion.last_error.kind # None
                       THEN classify_error(completion.last_error)
                       ELSE IF completion.text = << >>
                            THEN RequestFailed(<<"No", "response", "received", "from",
                                                 "ACP", "agent">>)
                            ELSE CompleteOk(completion.text)]
    /\ UNCHANGED <<mvars, config, notifications, locks, lvars, goose_mode, rejected_tool_calls, pending_confirmations,
                   requests, task, prompt_response_tx, updates, stream_pc, stream_req,
                   confirmation, permission_requests, yielded, peer_sent, refused,
                   prompt_result>>

\* stream.next() yields None: the stream has ended or has failed
CompleteReturn ==
    /\ completion.pc = "draining"
    /\ stream_pc[1] \in {"done", "failed"}
    /\ Taken
    /\ completion' =
         [completion EXCEPT
            !.pc = "returned",
            !.result = IF completion.text = << >>
                       THEN IF completion.last_error.kind # None
                            THEN classify_error(completion.last_error)
                            ELSE RequestFailed(<<"No", "response", "received", "from",
                                                 "ACP", "agent">>)
                       ELSE CompleteOk(completion.text)]
    /\ UNCHANGED <<mvars, config, notifications, locks, lvars, goose_mode, rejected_tool_calls, pending_confirmations,
                   requests, task, prompt_response_tx, updates, stream_pc, stream_req,
                   confirmation, permission_requests, yielded, peer_sent, refused,
                   prompt_result>>

\* what the peer sends during the turn, and how it answers the prompt
CompleteUpdates ==
    {n \in SessionUpdate :
        /\ n.content = NoContent
        /\ \/ n.update = "AgentMessageChunk" /\ n.block = "Text"
           \/ n.update = "AgentThoughtChunk" /\ n.block = "Text" /\ n.text = <<"a">>
           \/ n.update = "ToolCallUpdate" /\ n.id = "t1" /\ n.status = "Completed"}

CompleteResults ==
    {PromptOk, PromptErr(<<"context", "window", "exceeded">>),
     PromptErr(<<"prompt", "is", "too", "long">>), PromptErr(<<"rate", "limit">>)}

\* the stream is polled by complete_with_model only, which takes each item
\* before it polls again
NextComplete ==
    \/ CompleteWithModel
    \/ completion.pc = "draining" /\ Stream(1)
    \/ TaskPrompt
    \/ \E result \in CompleteResults : PromptResponse(result)
    \/ \E n \in CompleteUpdates : NotificationRecorded(n)
    \/ Taken /\ StreamMessage(1)
    \/ Taken /\ StreamToolCallComplete(1)
    \/ Taken /\ StreamEnd(1)
    \/ CompleteTake
    \/ CompleteReturn

SpecComplete == InitSession /\ [][NextComplete]_vars

(***************************************************************************)
(* SpecReply: permission requests under configured option ids, under every *)
(* goose mode and every confirmation, with offers that are empty, lack an  *)
(* allow option, or carry an allow kind under the configured reject id.    *)
(***************************************************************************)
ReplyMappings ==
    {m \in PermissionMapping : /\ m.rejected_tool_status = "Failed"
                               /\ m.allow_option_id \in {None, "y", "missing"}
                               /\ m.reject_option_id \in {None, "x"}}

ReplyOptionLists ==
    {<< >>,
     <<[option_id |-> "x", kind |-> "AllowOnce"], [option_id |-> "y", kind |-> "RejectOnce"]>>,
     <<[option_id |-> "y", kind |-> "RejectOnce"]>>}

InitReply ==
    /\ AdapterConstructed
    /\ config = DefaultConfig
    /\ goose_mode \in GooseMode
    /\ permission_mapping \in ReplyMappings
    /\ m_options = << >>
    /\ m_decision = "Cancel"
    /\ m_response = NoResponse

NextReply ==
    \/ Stream(1)
    \/ TaskPrompt
    \/ \E result \in PromptResults : PromptResponse(result)
    \/ \E t \in PeerPermissionIds, options \in ReplyOptionLists :
            RequestPermission(t, options)
    \/ StreamPermissionFromMode(1)
    \/ StreamPermissionAsk(1)
    \/ StreamConfirmed(1)
    \/ \E t \in PeerPermissionIds : \E permission \in Confirmations(t) :
            HandlePermissionConfirmation(t, permission)
    \/ StreamEnd(1)
    \/ StreamDrop(1)

SpecReply == InitReply /\ [][NextReply]_vars

(***************************************************************************)
(* SpecGuards: every operation that takes one of the mutexes, side by      *)
(* side: a turn with a permission request, the user's confirmation, the    *)
(* peer's tool-call update and ensure_session.                             *)
(***************************************************************************)
\* the confirmations the user gives in SpecGuards
GuardConfirmations == {"AllowOnce", "DenyOnce"}

NextGuards ==
    \/ \E k \in GooseSessionIds : EnsureSession(k)
    \/ \E c \in 1..MaxCalls : CallReturn(c)
    \/ TaskNewSession
    \/ \E session \in AbandonSessionResponses : NewSessionResponse(session)
    \/ Stream(1)
    \/ TaskPrompt
    \/ \E result \in PromptResults : PromptResponse(result)
    \/ \E n \in AbandonUpdates : Notification(n)
    \/ \E t \in PeerPermissionIds, options \in RequestedOptionLists :
            RequestPermission(t, options)
    \/ StreamMessage(1)
    \/ StreamToolCallComplete(1)
    \/ StreamPermissionAsk(1)
    \/ StreamConfirmed(1)
    \/ \E t \in PeerPermissionIds : \E permission \in GuardConfirmations :
            HandlePermissionConfirmation(t, permission)
    \/ StreamEnd(1)
    \/ StreamDrop(1)

SpecGuards == InitSession /\ [][NextGuards]_vars

(***************************************************************************)
(* Vocabulary of the claims about the mapper.                              *)
(***************************************************************************)
MapDone == m_response # NoResponse

AllowKinds == {"AllowOnce", "AllowAlways"}
RejectKinds == {"RejectOnce", "RejectAlways"}

\* the kind a decision prefers is the kind of the same name; its sibling is the fallback
SiblingKind(kind) ==
    CASE kind = "AllowOnce" -> "AllowAlways"
      [] kind = "AllowAlways" -> "AllowOnce"
      [] kind = "RejectOnce" -> "RejectAlways"
      [] kind = "RejectAlways" -> "RejectOnce"

\* the configured id a decision consults
ConfiguredIdFor(mapping, decision) ==
    IF decision \in AllowKinds THEN mapping.allow_option_id
    ELSE mapping.reject_option_id

IdsOffered(options) == {options[i].option_id : i \in 1..Len(options)}

OffersKind(options, kind) == \E i \in 1..Len(options) : options[i].kind = kind

\* i is the position of the first option of that kind
IsFirstOfKind(options, kind, i) ==
    /\ i \in 1..Len(options)
    /\ options[i].kind = kind
    /\ \A j \in 1..(i - 1) : options[j].kind # kind

\* C1: a decision other than Cancel, facing an offer that holds an option of
\* its preferred kind or of its fallback kind, is answered Selected(id) with
\* id the id of an offered option.
C1_SelectedIdIsOffered ==
    (/\ MapDone
     /\ m_decision # "Cancel"
     /\ \/ OffersKind(m_options, m_decision)
        \/ OffersKind(m_options, SiblingKind(m_decision)))
    => /\ m_response.outcome = "Selected"
       /\ m_response.option_id \in IdsOffered(m_options)

\* the fallback kind alone is offered and the configured id is not offered
C1_Witness ==
    /\ MapDone
    /\ m_decision = "RejectOnce"
    /\ permission_mapping.reject_option_id = "missing"
    /\ ~OffersKind(m_options, "RejectOnce")
    /\ OffersKind(m_options, "RejectAlways")
    /\ m_response.outcome = "Selected"

\* C2 as stated: a rejecting decision never selects the id of an offered
\* option of kind AllowOnce or AllowAlways.  (Stated for offers whose ids
\* are pairwise distinct, which only narrows the statement.)
C2_RejectNeverSelectsAllow ==
    (/\ MapDone /\ m_decision \in RejectKinds /\ m_response.outcome = "Selected"
     /\ \A i, j \in 1..Len(m_options) :
            m_options[i].option_id = m_options[j].option_id => i = j)
    => ~\E i \in 1..Len(m_options) :
            /\ m_options[i].option_id = m_response.option_id
            /\ m_options[i].kind \in AllowKinds

\* C2 amended: a rejecting decision selects only the configured reject id
\* (when offered, whatever its kind) or the id of an offered option of kind
\* RejectOnce or RejectAlways; when the offer holds neither, it is Cancelled.
C2_RejectSelectsRejectOrConfigured ==
    (MapDone /\ m_decision \in RejectKinds)
    => LET configuredOffered ==
               /\ permission_mapping.reject_option_id # None
               /\ permission_mapping.reject_option_id \in IdsOffered(m_options)
           rejectIds ==
               {m_options[i].option_id :
                    i \in {j \in 1..Len(m_options) : m_options[j].kind \in RejectKinds}}
       IN  /\ m_response.outcome = "Selected"
              => \/ configuredOffered
                    /\ m_response.option_id = permission_mapping.reject_option_id
                 \/ m_response.option_id \in rejectIds
           /\ (~configuredOffered /\ rejectIds = {})
              => m_response = Cancelled

\* only allow options are offered, no configured id is offered: Cancelled
C2_Witness ==
    /\ MapDone
    /\ m_decision = "RejectAlways"
    /\ Len(m_options) = 2
    /\ \A i \in 1..Len(m_options) : m_options[i].kind \in AllowKinds
    /\ permission_mapping.reject_option_id = "missing"
    /\ permission_mapping.allow_option_id = "x"
    /\ "x" \in IdsOffered(m_options)
    /\ m_response = Cancelled

\* C3: Cancel is answered Cancelled whatever the mapping and the offer; any
\* other decision is answered Cancelled when no offered option has its
\* preferred or fallback kind and its configured id is not offered.
C3_CancelledCases ==
    MapDone =>
        /\ m_decision = "Cancel" => m_response = Cancelled
        /\ (/\ m_decision # "Cancel"
            /\ ~OffersKind(m_options, m_decision)
            /\ ~OffersKind(m_options, SiblingKind(m_decision))
            /\ ConfiguredIdFor(permission_mapping, m_decision) \notin IdsOffered(m_options))
           => m_response = Cancelled

\* Cancel against an offer that holds both configured ids
C3_Witness ==
    /\ MapDone
    /\ m_decision = "Cancel"
    /\ permission_mapping.allow_option_id = "x"
    /\ permission_mapping.reject_option_id = "y"
    /\ {"x", "y"} \subseteq IdsOffered(m_options)
    /\ m_response = Cancelled

\* C4: a configured allow id that is offered is selected by AllowOnce and by
\* AllowAlways, whatever the kind and position of the option that carries
\* it; likewise the configured reject id for RejectOnce and RejectAlways.
C4_ConfiguredIdOverrides ==
    (/\ MapDone
     /\ m_decision # "Cancel"
     /\ ConfiguredIdFor(permission_mapping, m_decision) \in IdsOffered(m_options))
    => m_response = Selected(ConfiguredIdFor(permission_mapping, m_decision))

\* the configured allow id sits last, on a reject option, behind an option
\* of the decision's own kind
C4_Witness ==
    /\ MapDone
    /\ m_decision = "AllowOnce"
    /\ permission_mapping.allow_option_id = "y"
    /\ Len(m_options) = 2
    /\ m_options[1] = [option_id |-> "x", kind |-> "AllowOnce"]
    /\ m_options[2] = [option_id |-> "y", kind |-> "RejectAlways"]
    /\ m_response = Selected("y")

\* C5: a configured id that is not offered changes nothing: the outcome is
\* the one computed with no id configured.
C5_MissingIdFallsBackToKind ==
    (/\ MapDone
     /\ ConfiguredIdFor(permission_mapping, m_decision) \notin IdsOffered(m_options))
    => m_response = map_permission_response(PermissionMappingDefault, m_options, m_decision)

\* "missing" is configured, the other side's configured id is offered
C5_Witness ==
    /\ MapDone
    /\ m_decision = "AllowOnce"
    /\ permission_mapping.allow_option_id = "missing"
    /\ permission_mapping.reject_option_id = "x"
    /\ Len(m_options) = 2
    /\ m_options[1] = [option_id |-> "x", kind |-> "RejectOnce"]
    /\ m_options[2] = [option_id |-> "y", kind |-> "AllowOnce"]
    /\ m_response = Selected("y")

\* C6: with no id configured a decision selects the first offered option of
\* its own kind, and when there is none the first of its sibling kind.
C6_KindSelection ==
    (/\ MapDone
     /\ m_decision # "Cancel"
     /\ ConfiguredIdFor(permission_mapping, m_decision) = None)
    => /\ \A i \in 1..Len(m_options) :
            IsFirstOfKind(m_options, m_decision, i)
            => m_response = Selected(m_options[i].option_id)
       /\ \A i \in 1..Len(m_options) :
            (/\ ~OffersKind(m_options, m_decision)
             /\ IsFirstOfKind(m_options, SiblingKind(m_decision), i))
            => m_response = Selected(m_options[i].option_id)

\* RejectOnce against an AllowAlways and a RejectAlways option
C6_Witness ==
    /\ MapDone
    /\ m_decision = "RejectOnce"
    /\ permission_mapping.reject_option_id = None
    /\ m_options = <<[option_id |-> "x", kind |-> "AllowAlways"],
                     [option_id |-> "y", kind |-> "RejectAlways"]>>
    /\ m_response = Selected("y")

(***************************************************************************)
(* Vocabulary of the claims about rejections and confirmations.            *)
(***************************************************************************)
RejectingDecisions == {"RejectOnce", "RejectAlways", "Cancel"}

AskingModes == {"Approve", "SmartApprove"}

\* a permission request for tool call t was answered with a rejecting
\* decision and no ToolCallComplete of t has been processed since
RejectedAndNotCompleted(t) ==
    \E i \in DOMAIN permission_requests :
        /\ permission_requests[i].tool_call_id = t
        /\ permission_requests[i].decision \in RejectingDecisions
        /\ ~permission_requests[i].completed_after

\* C7: the is_error flag of a yielded tool response is true when the status
\* is Failed, true when the status is Completed and the tool call was in
\* RejectedToolCalls and rejected_tool_status is Completed, false otherwise.
C7_IsErrorTable ==
    [][\A s \in Streams :
         StreamToolCallComplete(s) =>
            LET u == Head(updates[s])
            IN  /\ yielded'.kind = "ToolResponse"
                /\ yielded'.id = u.id
                /\ yielded'.is_error =
                     (\/ u.status = "Failed"
                      \/ /\ u.status = "Completed"
                         /\ u.id \in rejected_tool_calls
                         /\ permission_mapping.rejected_tool_status = "Completed")]_vars

\* a Completed tool response flagged as an error
C7_Witness ==
    /\ yielded.kind = "ToolResponse"
    /\ yielded.status = "Completed"
    /\ yielded.is_error
    /\ permission_mapping.rejected_tool_status = "Completed"

\* C8: t is in RejectedToolCalls exactly from a rejecting answer to a
\* permission request for t until the first ToolCallComplete of t processed
\* after it.
C8_RejectedUntilComplete ==
    \A t \in ToolCallIds : t \in rejected_tool_calls <=> RejectedAndNotCompleted(t)

\* a rejected tool call whose ToolCallComplete has been processed
C8_Witness ==
    \E i \in DOMAIN permission_requests :
        /\ permission_requests[i].decision \in RejectingDecisions
        /\ permission_requests[i].completed_after
        /\ permission_requests[i].tool_call_id \notin rejected_tool_calls
        /\ yielded.kind = "ToolResponse"
        /\ yielded.id = permission_requests[i].tool_call_id

\* C9, restricted to the first status update of t after the rejection: in the
\* modes that ask the user, the first tool response yielded for t after a
\* rejecting confirmation carries is_error when the peer reports Completed and
\* rejected_tool_status is Completed, and when it reports Failed.
C9_RejectedResponseIsError ==
    [][\A s \in Streams :
         (/\ StreamToolCallComplete(s)
          /\ goose_mode \in AskingModes
          /\ RejectedAndNotCompleted(Head(updates[s]).id)
          /\ \/ Head(updates[s]).status = "Failed"
             \/ /\ Head(updates[s]).status = "Completed"
                /\ permission_mapping.rejected_tool_status = "Completed")
         => /\ yielded'.kind = "ToolResponse"
            /\ yielded'.id = Head(updates[s]).id
            /\ yielded'.is_error]_vars

\* the user's confirmation of a request for t was rejecting
RejectedByUser(t) ==
    \E i \in DOMAIN permission_requests :
        /\ permission_requests[i].tool_call_id = t
        /\ permission_requests[i].confirmed # None
        /\ permission_requests[i].decision \in RejectingDecisions

\* C9: in the modes that ask the user, once the confirmation for t was
\* rejecting, the tool response yielded when the peer reports the outcome of t
\* carries is_error when the report is Completed and rejected_tool_status is
\* Completed, and when it is Failed.
C9_RejectedOutcomeIsError ==
    [][\A s \in Streams :
         (/\ StreamToolCallComplete(s)
          /\ goose_mode \in AskingModes
          /\ RejectedByUser(Head(updates[s]).id)
          /\ \/ Head(updates[s]).status = "Failed"
             \/ /\ Head(updates[s]).status = "Completed"
                /\ permission_mapping.rejected_tool_status = "Completed")
         => /\ yielded'.kind = "ToolResponse"
            /\ yielded'.id = Head(updates[s]).id
            /\ yielded'.is_error]_vars

\* the user denied t1, the peer reported it Completed, the response is an error
C9_Witness ==
    /\ goose_mode = "Approve"
    /\ permission_mapping.rejected_tool_status = "Completed"
    /\ \E i \in DOMAIN permission_requests :
          /\ permission_requests[i].tool_call_id = "t1"
          /\ permission_requests[i].decision = "RejectOnce"
          /\ permission_requests[i].completed_after
    /\ yielded.stream = 1
    /\ yielded.kind = "ToolResponse"
    /\ yielded.id = "t1"
    /\ yielded.status = "Completed"
    /\ yielded.is_error

\* C10: an entry of PendingConfirmations belongs to a live stream that is
\* suspended on the confirmation of that tool call; a stream that has ended
\* or was dropped has left no entry.
C10_PendingOnlyWhileSuspended ==
    \A t \in DOMAIN pending_confirmations :
        /\ stream_pc[pending_confirmations[t]] = "confirm"
        /\ permission_requests[stream_req[pending_confirmations[t]]].tool_call_id = t

\* the tool call a suspended stream awaits the confirmation of
AwaitedId(s) == permission_requests[stream_req[s]].tool_call_id

\* stream s has yielded the action-required message, is alive and no
\* confirmation has reached it
AwaitsConfirmation(s) == stream_pc[s] = "confirm" /\ confirmation[s] = "Empty"

\* the decision a confirmation stands for
DecisionOf(permission) ==
    CASE permission = "AlwaysAllow" -> "AllowAlways"
      [] permission = "AllowOnce" -> "AllowOnce"
      [] permission = "DenyOnce" -> "RejectOnce"
      [] permission = "AlwaysDeny" -> "RejectAlways"
      [] permission = "Cancel" -> "Cancel"

\* C11: while a stream awaits the confirmation of t, handle_permission_confirmation(t, c)
\* returns true and hands c to the stream, and the stream, once it resumes with c,
\* replies to the peer with map_permission_response of the decision c stands for.
C11_ConfirmationReachesPeer ==
    [][\A s \in Streams :
         /\ \A c \in Permission :
               (AwaitsConfirmation(s) /\ HandlePermissionConfirmation(AwaitedId(s), c))
               => Handled(AwaitedId(s)) /\ confirmation'[s] = c
         /\ (StreamConfirmed(s) /\ confirmation[s] \in Permission)
            => /\ permission_requests'[stream_req[s]].confirmed = confirmation[s]
               /\ permission_requests'[stream_req[s]].reply =
                     map_permission_response(permission_mapping,
                                             permission_requests[stream_req[s]].options,
                                             DecisionOf(confirmation[s]))]_vars

\* the user denied once and the peer was told the reject option
C11_Witness ==
    \E i \in DOMAIN permission_requests :
        /\ permission_requests[i].confirmed = "DenyOnce"
        /\ permission_requests[i].reply = Selected("y")

\* C12: handle_permission_confirmation(id, c) returns true exactly when a stream
\* suspended on the confirmation of id received c; when it returns false it
\* changes no adapter state.
C12_TrueIffWaiterResolved ==
    [][\A t \in ToolCallIds, c \in Permission :
         HandlePermissionConfirmation(t, c) =>
            /\ Handled(t) <=>
                  \E s \in Streams :
                      /\ AwaitsConfirmation(s)
                      /\ AwaitedId(s) = t
                      /\ confirmation'[s] = c
            /\ ~Handled(t) => UNCHANGED avars]_vars

\* C13: the sink is set exactly while the protocol task has sent a prompt request
\* whose response it has not received, and then holds the sender of that
\* prompt; at most one prompt is sent and unanswered, also while further
\* prompts are queued.
C13_SinkSetWhilePromptInFlight ==
    /\ task.dispatched - task.answered \in {0, 1}
    /\ prompt_response_tx # NoStream <=> task.dispatched - task.answered = 1
    /\ prompt_response_tx # NoStream <=> task.pc = "prompt"
    /\ prompt_response_tx = task.stream

\* a prompt is in flight while the next one is queued
C13_Witness ==
    /\ task.pc = "prompt"
    /\ prompt_response_tx = 1
    /\ requests # << >>
    /\ Head(requests).stream = 2

C15_OrderPreserved ==
    \A s \in Streams :
        /\ \A i, j \in 1..Len(updates[s]) :
               i < j => updates[s][i].seq < updates[s][j].seq
        /\ yielded.stream = s =>
               \A i \in 1..Len(updates[s]) : yielded.seq < updates[s][i].seq

\* the first peer message has been yielded while the second is still buffered
C15_Witness ==
    /\ yielded.stream = 1
    /\ yielded.seq = 1
    /\ Len(updates[1]) = 1
    /\ updates[1][1].seq = 2
    /\ updates[1][1].type \in {"Text", "ToolCallComplete", "PermissionRequest"}

\* C16: when a stream that was kept alive has been consumed to its end, every
\* translatable update the peer sent during its turn had entered its channel
\* (from where the stream yields each exactly once, in order), whatever the
\* number of updates and the speed of the consumer.
C16_EveryUpdateYielded ==
    \A s \in Streams : stream_pc[s] = "done" => refused[s] = 0

\* the request with index i is still in the channel of the stream it was
\* forwarded to
Buffered(i) ==
    /\ permission_requests[i].stream # NoStream
    /\ i \in BufferedRequests(permission_requests[i].stream)

\* C17: in Auto every permission request a stream receives is answered at once
\* with the mapping of AllowOnce and in Chat with the mapping of RejectOnce: no
\* action-required item is yielded, no stream waits for a confirmation, nothing
\* is put into PendingConfirmations, and in Chat the id is recorded in
\* RejectedToolCalls (until a ToolCallComplete of it is processed).
C17_ModeAnswersWithoutCaller ==
    goose_mode \in {"Auto", "Chat"} =>
       LET decision == IF goose_mode = "Auto" THEN "AllowOnce" ELSE "RejectOnce"
       IN  /\ pending_confirmations = << >>
           /\ yielded.kind # "ActionRequired"
           /\ \A s \in Streams : stream_pc[s] # "confirm"
           /\ \A i \in DOMAIN permission_requests :
                 LET r == permission_requests[i]
                 IN  /\ r.confirmed = None
                     /\ r.reply = NoResponse => Buffered(i)
                     /\ r.decision = None => r.reply \in {NoResponse, InternalError, Cancelled}
                     /\ r.decision # None =>
                           /\ r.decision = decision
                           /\ r.reply = map_permission_response(permission_mapping,
                                                                r.options, decision)
                           /\ (goose_mode = "Chat" /\ ~r.completed_after)
                              => r.tool_call_id \in rejected_tool_calls

\* Chat answered a request with the reject option and recorded the rejection
C17_Witness ==
    /\ goose_mode = "Chat"
    /\ \E i \in DOMAIN permission_requests :
          /\ permission_requests[i].decision = "RejectOnce"
          /\ permission_requests[i].reply = Selected("y")
          /\ permission_requests[i].tool_call_id \in rejected_tool_calls

C19_NoSinkInternalError ==
    [][\A t \in PeerPermissionIds, options \in RequestedOptionLists :
         (/\ RequestPermission(t, options)
          /\ \/ prompt_response_tx = NoStream
             \/ ~ReceiverOpen(prompt_response_tx))
         => /\ Len(permission_requests') = Len(permission_requests) + 1
            /\ permission_requests'[Len(permission_requests')].reply = InternalError
            /\ UNCHANGED <<updates, pending_confirmations, confirmation, stream_pc,
                           stream_req, yielded, rejected_tool_calls>>]_vars

\* the sink is set, its stream was dropped, and a request got the internal error
C19_Witness ==
    /\ prompt_response_tx # NoStream
    /\ stream_pc[prompt_response_tx] = "dropped"
    /\ updates[prompt_response_tx] = << >>
    /\ pending_confirmations = << >>
    /\ permission_requests # << >>
    /\ permission_requests[Len(permission_requests)].reply = InternalError

\* C20: a permission request that was forwarded to a stream and not yet answered
\* when the caller dropped the stream has been answered Cancelled; the callback
\* that awaits the reply is not left waiting.
C20_DropAnswersCancelled ==
    \A i \in DOMAIN permission_requests :
        LET r == permission_requests[i]
        IN  (r.stream # NoStream /\ stream_pc[r.stream] = "dropped") =>
               /\ r.reply # NoResponse
               /\ r.decision = None => r.reply = Cancelled

\* a stream was dropped while it waited for the confirmation of a request
C20_Witness ==
    \E i \in DOMAIN permission_requests :
        /\ permission_requests[i].stream # NoStream
        /\ stream_pc[permission_requests[i].stream] = "dropped"
        /\ permission_requests[i].decision = None
        /\ permission_requests[i].reply = Cancelled
        /\ yielded.kind = "ActionRequired"
        /\ yielded.stream = permission_requests[i].stream
        /\ yielded.id = permission_requests[i].tool_call_id

(***************************************************************************)
(* C21: when the peer answers the prompt request with an error while the   *)
(* stream of that prompt is alive, the stream does not end as a normal     *)
(* completion, however many updates its channel holds at that moment.      *)
(***************************************************************************)
C21_ErrorEndsInFailure ==
    \A s \in Streams : prompt_result[s].kind = "Err" => stream_pc[s] # "done"

\* text contains phrase (both sequences of words)
Mentions(text, phrase) ==
    \E i \in 1..Len(text) :
        /\ i + Len(phrase) - 1 <= Len(text)
        /\ SubSeq(text, i, i + Len(phrase) - 1) = phrase

ContextLengthPhrases == {<<"context", "window">>, <<"too", "long">>, <<"too", "many", "tokens">>}

(***************************************************************************)
(* C22: a stream that ends on Error(text) fails with ContextLengthExceeded *)
(* when the text mentions "context window", "too long" or "too many        *)
(* tokens", and with RequestFailed otherwise.                              *)
(***************************************************************************)
C22_ErrorTextClassified ==
    yielded.kind = "Error" =>
        yielded.failure.kind =
            IF \E phrase \in ContextLengthPhrases : Mentions(yielded.failure.text, phrase)
            THEN "ContextLengthExceeded" ELSE "RequestFailed"

TerminalStatuses == {"Completed", "Failed"}

\* stream s is about to process a ToolCallComplete of t with a terminal status
TerminalUpdateNext(s, t) ==
    /\ stream_pc[s] = "recv"
    /\ updates[s] # << >>
    /\ Head(updates[s]).type = "ToolCallComplete"
    /\ Head(updates[s]).id = t
    /\ Head(updates[s]).status \in TerminalStatuses

(***************************************************************************)
(* C29: an id leaves rejected_tool_calls only in a step that processes a   *)
(* tool-call update of that id with a terminal status (Completed, Failed); *)
(* an update with status Pending or InProgress leaves the id in the set.   *)
(***************************************************************************)
C29_RemovedOnlyOnTerminal ==
    [][\A t \in ToolCallIds :
          t \in rejected_tool_calls /\ t \notin rejected_tool_calls' =>
              \E s \in Streams : TerminalUpdateNext(s, t) /\ updates'[s] = Tail(updates[s])]_vars

(***************************************************************************)
(* C30: while a turn is in flight, every id in rejected_tool_calls was     *)
(* inserted by a rejecting permission response to a request of that same   *)
(* turn; an id rejected in an earlier turn does not carry over.            *)
(***************************************************************************)
C30_RejectedWithinTurn ==
    task.pc = "prompt" =>
        \A t \in rejected_tool_calls :
            \E i \in DOMAIN permission_requests :
                /\ permission_requests[i].tool_call_id = t
                /\ permission_requests[i].decision \in RejectingDecisions
                /\ permission_requests[i].stream = task.stream

(***************************************************************************)
(* C23: connect returns an adapter only after initialize succeeded.  When  *)
(* initialize fails, or the byte stream closes before its reply, connect   *)
(* returns an error, the protocol task has ended without taking any        *)
(* ClientRequest, and the receiver of the request channel is gone, so a    *)
(* send on it fails instead of waiting.                                    *)
(***************************************************************************)
C23_AdapterOnlyAfterInitialize ==
    /\ adapter \notin {"connecting", "failed"} => init_rx = "Ok"
    /\ init_rx \in {"Err", "Closed"} =>
          /\ adapter \in {"connecting", "failed"}
          /\ task.pc = "terminated"
          /\ ~RxOpen
          /\ task.dispatched = 0
          /\ calls = << >>
          /\ requests = << >>

C23_Witness ==
    /\ adapter = "failed"
    /\ init_rx = "Closed"
    /\ task.pc = "terminated"

(***************************************************************************)
(* C24: once the protocol task has ended, every caller waiting for a reply *)
(* to new_session or set_model and every stream waiting for updates        *)
(* eventually returns; the reply one-shot of each waiting caller has       *)
(* resolved (to the reply sent before the end, or to an error), and a call *)
(* made after the end returns the unavailable error without waiting.       *)
(***************************************************************************)
C24_WaitersReturn ==
    /\ (task.pc = "terminated") ~>
          (Awaiting = {} /\ \A s \in Streams : stream_pc[s] # "recv")
    /\ [](task.pc = "terminated" => \A c \in Awaiting : calls[c].rx # NoReply)
    /\ [][task.pc = "terminated" /\ Len(calls') > Len(calls) =>
             /\ calls'[Len(calls')].pc = "returned"
             /\ calls'[Len(calls')].result.kind = "Unavailable"]_vars

C24_Witness ==
    /\ task.pc = "terminated"
    /\ stream_pc[1] = "done" /\ prompt_result[1] = NoResult /\ task.answered = 0
    /\ \E c \in DOMAIN calls : calls[c].pc = "returned" /\ calls[c].result.kind = "Closed"
    /\ \E c \in DOMAIN calls : calls[c].result.kind = "Unavailable"

(***************************************************************************)
(* C25: after the adapter is dropped the protocol task eventually receives *)
(* Shutdown and ends, from every state the drop can happen in: idle,       *)
(* requests queued, a prompt in flight, a stream suspended on a            *)
(* confirmation.                                                           *)
(***************************************************************************)
C25_DropTerminatesTask ==
    (adapter \in {"dropped", "shutdown_sent"}) ~> (task.pc = "terminated")

\* the calls whose request the protocol task has taken and not yet replied to
InService ==
    {c \in Awaiting :
        /\ calls[c].rx = NoReply
        /\ \A i \in 1..Len(requests) : requests[i].call # c}

(***************************************************************************)
(* C26: the protocol task takes the ClientRequests in the order they were  *)
(* enqueued and serves one at a time: a request leaves the queue only from *)
(* its head, and only when no call is in service (the peer's response,     *)
(* with the follow-up set_session_mode, has arrived and the reply has been *)
(* delivered) and no prompt is in flight.                                  *)
(***************************************************************************)
C26_OneRequestAtATimeInOrder ==
    /\ [](Cardinality(InService) + (IF prompt_response_tx # NoStream THEN 1 ELSE 0) <= 1)
    /\ [][Len(requests') < Len(requests) =>
             /\ requests' = Tail(requests)
             /\ InService = {}
             /\ prompt_response_tx = NoStream]_vars

C26_Witness ==
    /\ task.pc = "set_mode"
    /\ task.call = 2
    /\ calls[1].rx.kind = "Ok"
    /\ requests # << >>

(***************************************************************************)
(* C27: the mapping of a goose session id in goose_to_acp_id is written at *)
(* most once and never changes, also when several ensure_session calls for *)
(* a key that is not yet mapped run concurrently.                          *)
(***************************************************************************)
C27_MappingWrittenOnce ==
    [][\A k \in DOMAIN goose_to_acp_id :
          k \in DOMAIN goose_to_acp_id' /\ goose_to_acp_id'[k] = goose_to_acp_id[k]]_vars

\* the step starts a fetch_supported_models call, or serves or completes one
FetchStep ==
    \/ /\ Len(calls') > Len(calls)
       /\ calls'[Len(calls')].op = "fetch_supported_models"
    \/ \E c \in DOMAIN calls :
          /\ calls[c].op = "fetch_supported_models"
          /\ \/ calls'[c] # calls[c]
             \/ task' # task /\ (task.call = c \/ task'.call = c)

(***************************************************************************)
(* C28: fetch_supported_models enqueues exactly one NewSession request and *)
(* no Prompt, and no step of the call changes the sink, goose_to_acp_id,   *)
(* pending_confirmations or rejected_tool_calls; a turn in flight while it *)
(* is called loses none of its updates and gets its terminal update.       *)
(***************************************************************************)
C28_FetchLeavesTurnAlone ==
    /\ [][FetchStep =>
             /\ UNCHANGED <<prompt_response_tx, goose_to_acp_id, pending_confirmations,
                            rejected_tool_calls, updates, stream_pc>>
             /\ IF Len(calls') > Len(calls)
                THEN requests' = Append(requests, [type |-> "NewSession", stream |-> NoStream,
                                                   call |-> Len(calls')])
                ELSE \A i \in 1..Len(requests') : \E j \in 1..Len(requests) :
                        requests'[i] = requests[j]]_vars
    /\ [](\A s \in Streams :
            /\ refused[s] = 0
            /\ prompt_result[s] # NoResult /\ stream_pc[s] = "recv" =>
                  /\ updates[s] # << >>
                  /\ updates[s][Len(updates[s])].type \in {"Complete", "Error"})

C28_Witness ==
    /\ task.pc = "prompt"
    /\ \E i \in 1..Len(requests) :
          /\ requests[i].type = "NewSession"
          /\ calls[requests[i].call].op = "fetch_supported_models"
    /\ Len(updates[1]) = 2
    /\ peer_sent = 2

(***************************************************************************)
(* C31: a turn whose stream the caller dropped.                            *)
(***************************************************************************)
\* the prompt in flight belongs to a stream the caller has dropped
Abandoned == task.pc = "prompt" /\ stream_pc[task.stream] = "dropped"

\* requests' is requests with further requests appended: none was taken
Extends(longer, shorter) ==
    Len(longer) >= Len(shorter) /\ SubSeq(longer, 1, Len(shorter)) = shorter

\* C31: after the caller drops a stream mid-turn, the sink stays set to that
\* turn's sender, nothing is forwarded into the dropped stream's channel, and
\* for as long as the prompt response has not arrived the protocol task stays
\* where it is: it takes no ClientRequest (NewSession, SetModel, Prompt,
\* Shutdown) from its channel, which only grows
C31_AbandonedTurnStillAwaited ==
    [][Abandoned =>
         /\ prompt_response_tx = task.stream
         /\ updates[task.stream] = << >>
         /\ task'.pc = "prompt" =>
              /\ task' = task
              /\ prompt_response_tx' = prompt_response_tx
              /\ updates'[task.stream] = << >>
              /\ Extends(requests', requests)
         /\ task'.pc # "prompt" =>
              /\ task'.pc = "recv"
              /\ task'.answered = task.answered + 1
              /\ requests' = requests]_vars

\* the stream was dropped mid-turn, the peer has sent a notification since,
\* and a NewSession and a SetModel request wait in the channel
C31_Witness ==
    /\ Abandoned
    /\ \E i \in DOMAIN notifications : notifications[i].sink = "Closed"
    /\ \E i \in DOMAIN requests : requests[i].type = "NewSession"
    /\ \E i \in DOMAIN requests : requests[i].type = "SetModel"

(***************************************************************************)
(* C32: notifications that meet no usable sink.                            *)
(***************************************************************************)
\* the step is the callback handling one more notification
NotificationHandled == Len(notifications') = Len(notifications) + 1

\* C32: a session notification handled while the sink is None, or while the
\* receiver of the sink's channel is gone, puts nothing into any stream's
\* channel and yields nothing, leaves the sink, pending_confirmations,
\* rejected_tool_calls and goose_to_acp_id as they are, and leaves the
\* protocol task where it is
C32_UnusableSinkDropsNotification ==
    [][(NotificationHandled /\ notifications'[Len(notifications')].sink \in {"None", "Closed"})
         => /\ updates' = updates
            /\ yielded' = yielded
            /\ stream_pc' = stream_pc
            /\ prompt_response_tx' = prompt_response_tx
            /\ pending_confirmations' = pending_confirmations
            /\ rejected_tool_calls' = rejected_tool_calls
            /\ goose_to_acp_id' = goose_to_acp_id
            /\ task' = task
            /\ requests' = requests]_vars

\* the callback has handled a tool-call update with no sink set and a text
\* chunk behind a dropped stream, while a rejection is remembered
C32_Witness ==
    /\ \E i \in DOMAIN notifications :
          notifications[i].sink = "None" /\ notifications[i].update.update = "ToolCallUpdate"
    /\ \E i \in DOMAIN notifications :
          notifications[i].sink = "Closed" /\ notifications[i].update.update = "AgentMessageChunk"
    /\ rejected_tool_calls # {}

(***************************************************************************)
(* C33, C34: the session mode.                                             *)
(***************************************************************************)
\* the step is the arrival of a successful answer to NewSessionRequest
SessionCreated == task.pc = "new_session" /\ peer_sessions' = peer_sessions + 1

\* the configured mode is neither the current mode of the modes nor among
\* their available modes
NotOffered(modes) ==
    /\ config.session_mode_id # None
    /\ modes.advertised
    /\ modes.current_mode_id # config.session_mode_id
    /\ \A i \in DOMAIN modes.available_modes :
          modes.available_modes[i] # config.session_mode_id

\* the message of the failure, up to the list of modes
NotOfferedReason == "Requested mode not offered by agent. Available modes"

\* the reply names exactly the modes
NamesModes(reply, modes) ==
    /\ reply.kind = "Err"
    /\ reply.session = 0
    /\ reply.error.reason = NotOfferedReason
    /\ reply.error.available = modes.available_modes

\* C33: when a session mode is configured and the new session advertises
\* modes that do not contain it, and it is not the current mode, the task
\* sends no set_session_mode request and replies to the caller with a failure
\* that names the offered modes; a caller that returns with that failure has
\* no session id, and ensure_session has mapped none
C33_UnofferedModeFails ==
    [][/\ (SessionCreated /\ NotOffered(task'.modes)) =>
            /\ task'.pc = "recv"
            /\ NamesModes(calls'[task.call].rx, task'.modes)
       /\ \A c \in DOMAIN calls :
            (calls[c].pc = "await" /\ calls'[c].pc = "returned"
             /\ calls[c].rx.error.reason = NotOfferedReason) =>
                /\ calls'[c].result.kind = "Err"
                /\ calls'[c].result.session = 0
                /\ goose_to_acp_id' = goose_to_acp_id]_vars

\* ensure_session returned the failure that names the single mode "ask" to an
\* adapter configured with "code", and the session map is empty
C33_Witness ==
    /\ config.session_mode_id = "code"
    /\ goose_to_acp_id = << >>
    /\ peer_sessions = 1
    /\ \E c \in DOMAIN calls :
          /\ calls[c].op = "ensure_session"
          /\ calls[c].pc = "returned"
          /\ calls[c].result.error.available = <<"ask">>

\* C34: the task sends set_session_mode only as the step that follows a
\* successful answer to NewSessionRequest, only with a mode configured that is
\* not the session's current mode and is among its available modes, and while
\* that request is in flight it sends nothing else: its answer ends the
\* handling of NewSession
C34_SetModeOnlyWhenNeeded ==
    [][/\ (task'.pc = "set_mode" /\ task.pc # "set_mode") =>
            /\ SessionCreated
            /\ config.session_mode_id # None
            /\ task'.modes.advertised
            /\ task'.modes.current_mode_id # config.session_mode_id
            /\ \E i \in DOMAIN task'.modes.available_modes :
                  task'.modes.available_modes[i] = config.session_mode_id
       /\ (task.pc = "set_mode" /\ task' # task) =>
            /\ task'.pc = "recv"
            /\ calls'[task.call].rx # NoReply
       /\ (SessionCreated /\ (config.session_mode_id = None
                               \/ task'.modes.current_mode_id = config.session_mode_id)) =>
            /\ task'.pc = "recv"
            /\ calls'[task.call].rx.kind = "Ok"]_vars

\* set_session_mode is in flight for an adapter configured with "code" whose
\* new session is in mode "ask" and offers "code" second
C34_Witness ==
    /\ task.pc = "set_mode"
    /\ config.session_mode_id = "code"
    /\ task.modes = SessionModeState("ask", <<"ask", "code">>)

(***************************************************************************)
(* C35: the translation of session updates.                                *)
(***************************************************************************)
\* C35: handling a notification while the sink's channel is open appends at
\* most one update to that channel and touches no other channel.  A
\* ToolCallUpdate appends ToolCallComplete exactly when its status is set,
\* with its id, its status and its content (empty when the field is absent);
\* a message or thought chunk appends Text or Thought with its text exactly
\* when its block is text; a ToolCall appends ToolCallStart with its id; every
\* other update appends nothing
C35_TranslationTable ==
    [][(NotificationHandled /\ notifications'[Len(notifications')].sink = "Open") =>
         LET n == notifications'[Len(notifications')].update
             s == prompt_response_tx
             sent == updates'[s] # updates[s]
             u == updates'[s][Len(updates'[s])]
         IN  /\ sent => updates'[s] = Append(updates[s], u)
             /\ \A r \in Streams \ {s} : updates'[r] = updates[r]
             /\ CASE n.update = "ToolCallUpdate" ->
                       /\ sent <=> n.status # None
                       /\ sent => /\ u.type = "ToolCallComplete"
                                  /\ u.id = n.id
                                  /\ u.status = n.status
                                  /\ u.content = IF n.content.present
                                                 THEN n.content.blocks ELSE << >>
                  [] n.update = "AgentMessageChunk" ->
                       /\ sent <=> n.block = "Text"
                       /\ sent => u.type = "Text" /\ u.text = n.text
                  [] n.update = "AgentThoughtChunk" ->
                       /\ sent <=> n.block = "Text"
                       /\ sent => u.type = "Thought" /\ u.text = n.text
                  [] n.update = "ToolCall" ->
                       /\ sent
                       /\ u.type = "ToolCallStart" /\ u.id = n.id
                  [] OTHER -> ~sent]_vars

\* the callback has handled, with the channel open, a tool-call update without
\* a status and then one with status Completed and no content, and only the
\* second is in the channel, with empty content
C35_Witness ==
    /\ Len(notifications) = 2
    /\ notifications[1].sink = "Open" /\ notifications[2].sink = "Open"
    /\ notifications[1].update.update = "ToolCallUpdate"
    /\ notifications[1].update.status = None
    /\ notifications[2].update.update = "ToolCallUpdate"
    /\ notifications[2].update.status = "Completed"
    /\ ~notifications[2].update.content.present
    /\ Len(updates[1]) = 1
    /\ updates[1][1].type = "ToolCallComplete"
    /\ updates[1][1].content = << >>

Supported(server, http) ==
    \/ server.kind = "Stdio"
    \/ server.kind = "Http" /\ http

\* servers is the projection of extensions: one server for each stdio and each
\* streamable-HTTP extension, in the order of the extensions, and no other
ProjectionOf(servers, extensions) ==
    LET kept == SelectSeq(extensions,
                          LAMBDA e : e.kind \in {"Stdio", "StreamableHttp"})
    IN  /\ Len(servers) = Len(kept)
        /\ \A i \in DOMAIN kept :
              /\ servers[i].name = kept[i].name
              /\ servers[i].kind = IF kept[i].kind = "Stdio" THEN "Stdio" ELSE "Http"

\* C37: while the NewSessionRequest is in flight, the servers it carries are
\* the configured servers in their order with exactly the stdio servers, and
\* the HTTP servers if the peer advertised HTTP in its initialize response,
\* left in (so never an SSE server); and a configuration built from
\* extensions holds one server per stdio or streamable-HTTP extension, in
\* order, and nothing for SSE or any other extension
C37_ServersFiltered ==
    /\ task.pc = "new_session" =>
          task.servers = SelectSeq(config.mcp_servers,
                            LAMBDA server : Supported(server, task.mcp_capabilities.http))
    /\ adapter # "configuring" /\ config.extensions # << >> =>
          ProjectionOf(config.mcp_servers, config.extensions)

\* a request that left an HTTP server out and kept the stdio server behind
\* it, from a configuration whose extensions held one that is not projected
C37_Witness ==
    /\ task.pc = "new_session"
    /\ ~task.mcp_capabilities.http
    /\ \E i, j \in DOMAIN config.mcp_servers :
          /\ i < j
          /\ config.mcp_servers[i].kind = "Http"
          /\ config.mcp_servers[j].kind = "Stdio"
    /\ Len(task.servers) = 1
    /\ \E e \in Range(config.extensions) : e.kind \in {"Sse", "Builtin"}

(***************************************************************************)
(* C38, C39: the reply to a permission request.                            *)
(***************************************************************************)
\* request i is answered in this step
Replied(i) ==
    /\ i \in DOMAIN permission_requests'
    /\ permission_requests'[i].reply # NoResponse
    /\ i \in DOMAIN permission_requests => permission_requests[i].reply = NoResponse

\* C38: a request, once answered, keeps its reply (no second reply), and a
\* reply is an internal error, given only to a request that was not forwarded
\* into a sink, or Cancelled, or Selected(id) with id the id of an option of
\* that request
C38_OneReplyOfThreeForms ==
    [][/\ \A i \in DOMAIN permission_requests :
             permission_requests[i].reply # NoResponse
                => permission_requests'[i].reply = permission_requests[i].reply
       /\ \A i \in DOMAIN permission_requests' :
             LET request == permission_requests'[i]
             IN  \/ request.reply = NoResponse
                 \/ request.reply = InternalError /\ request.stream = NoStream
                 \/ request.reply = Cancelled /\ request.stream # NoStream
                 \/ /\ request.reply.outcome = "Selected"
                    /\ request.stream # NoStream
                    /\ request.reply.option_id \in IdsOffered(request.options)]_vars

\* each of the three forms has been given: an internal error to a request
\* that met no sink and, with a configured allow id that is not offered, the
\* selection of the offered allow option to a request the user allowed
C38_Witness ==
    /\ Len(permission_requests) = 2
    /\ permission_mapping.allow_option_id = "missing"
    /\ \E i, j \in DOMAIN permission_requests :
          /\ permission_requests[i].reply = InternalError
          /\ permission_requests[j].reply = Selected("x")
          /\ permission_requests[j].decision = "AllowOnce"

\* the reply of the request rejects: Cancelled, or the selection of an option
\* of a reject kind
Rejecting(request) ==
    \/ request.reply = Cancelled
    \/ /\ request.reply.outcome = "Selected"
       /\ \E k \in DOMAIN request.options :
             /\ request.options[k].option_id = request.reply.option_id
             /\ request.options[k].kind \in {"RejectOnce", "RejectAlways"}

\* C39: in the step that answers a request for tool call t with Cancelled or
\* with the selection of a reject option, t is in rejected_tool_calls once
\* the step is done
C39_RejectingReplyRecorded ==
    [][\A i \in DOMAIN permission_requests' :
          Replied(i) /\ Rejecting(permission_requests'[i])
             => permission_requests'[i].tool_call_id \in rejected_tool_calls']_vars

(***************************************************************************)
(* C40: what complete_with_model returns.                                  *)
(***************************************************************************)
\* the texts of the message chunks among the recorded notifications that met
\* an open sink, one after the other
RECURSIVE DeliveredText(_)
DeliveredText(recorded) ==
    IF recorded = << >> THEN << >>
    ELSE (IF /\ Head(recorded).sink = "Open"
             /\ Head(recorded).update.update = "AgentMessageChunk"
             /\ Head(recorded).update.block = "Text"
          THEN Head(recorded).update.text ELSE << >>)
         \o DeliveredText(Tail(recorded))

NoResponseReceived == <<"No", "response", "received", "from", "ACP", "agent">>

\* C40: when complete_with_model has returned, the stream has ended and holds
\* no update; the result is Ok with the delivered message texts in order if
\* that text is not empty, whether the prompt was answered Ok or with an
\* error; otherwise it is an error: ContextLengthExceeded carrying the
\* peer's error text if that text mentions one of the three phrases,
\* RequestFailed with the peer's error text if it does not, and
\* RequestFailed("No response received from ACP agent") if the prompt was
\* answered Ok
C40_CompleteResult ==
    completion.pc = "returned" =>
        /\ stream_pc[1] \in {"done", "failed"}
        /\ updates[1] = << >>
        /\ IF DeliveredText(notifications) # << >>
           THEN completion.result = [kind |-> "Ok", text |-> DeliveredText(notifications)]
           ELSE IF prompt_result[1].kind = "Err"
                THEN IF \E phrase \in ContextLengthPhrases :
                            Mentions(prompt_result[1].text, phrase)
                     THEN /\ completion.result.kind = "ContextLengthExceeded"
                          /\ Mentions(completion.result.text, prompt_result[1].text)
                     ELSE completion.result = [kind |-> "RequestFailed",
                                               text |-> prompt_result[1].text]
                ELSE completion.result = [kind |-> "RequestFailed",
                                          text |-> NoResponseReceived]

\* two chunks with different texts were concatenated in their order and
\* returned although the prompt was then answered with an error
C40_Witness ==
    /\ completion.pc = "returned"
    /\ completion.result = [kind |-> "Ok", text |-> <<"b", "a">>]
    /\ prompt_result[1].kind = "Err"
    /\ stream_pc[1] = "failed"

====
